---- MODULE Spec2Model ----
(***************************************************************************)
(* A model of the ClickUp crawler: ClickUpCrawler.crawlSpace               *)
(* (src/src/crawler.ts), the task walk ClickUpClient.getAllTasksInSpace    *)
(* (src/src/clickup-client.ts) and the CSV helpers (csv-utils).            *)
(*                                                                         *)
(* JavaScript strings are sequences of one-character strings, so that      *)
(* split, join, sort and escaping are computed and not assumed.            *)
(***************************************************************************)
EXTENDS Integers, Sequences, FiniteSets, TLC

VARIABLES
    opts,       \* crawlSpace's arguments: includeDocs, includeTasks
    remote,     \* what the ClickUp API holds (fixed during a crawl)
    pc,         \* position of crawlSpace / getAllTasksInSpace
    faults,     \* failed fetches and failed file writes injected so far
    walk,       \* getAllTasksInSpace's locals (lists, folders, indices, counters)
    csv,        \* exportTasksAsCSV's locals and the tasks.csv file
    docs,       \* crawlSpace's locals of the document phase
    writes,     \* markdown files this call of crawlSpace wrote, in order
    dirs,       \* directories this call of crawlSpace created
    trace,      \* its fetches, log lines and callback calls, in order
    delivered,  \* the records onTask was called with, in order
    outcome,    \* "running", "resolved" or "rejected": crawlSpace's promise
    cli,        \* the command: its mode, the spaces of the workspace, the
                \* calls of crawlSpace it made and how each ended
    applied     \* a function called on its own: its name, argument and result

vars == <<opts, remote, pc, faults, walk, csv, docs, writes, dirs, trace, delivered,
          outcome, cli, applied>>

\* ------------------------------------------------------------------ bounds

\* failed fetches / failed file writes injected into one crawl
MaxFaults == 2

\* length of the strings escapeCSV is called with on its own
MaxCsvLen == 3

\* length of the display names sanitizeFileName is called with on its own
MaxNameLen == 2

\* ----------------------------------------------------------------- strings

\* UTF-16 code units of the characters the model uses (Array.prototype.sort
\* without a comparator orders strings by code unit).
CharCode(c) ==
    CASE c = "\n" -> 10
      [] c = "\r" -> 13
      [] c = " "  -> 32
      [] c = "\"" -> 34
      [] c = ","  -> 44
      [] c = "."  -> 46
      [] c = "/"  -> 47
      [] c = "1"  -> 49
      [] c = "2"  -> 50
      [] c = "3"  -> 51
      [] c = ":"  -> 58
      [] c = ";"  -> 59
      [] c = "A"  -> 65
      [] c = "B"  -> 66
      [] c = "C"  -> 67
      [] c = "_"  -> 95
      [] c = "a"  -> 97
      [] c = "b"  -> 98
      [] c = "c"  -> 99
      [] c = "d"  -> 100
      [] c = "e"  -> 101
      [] c = "f"  -> 102
      [] c = "g"  -> 103
      [] c = "h"  -> 104
      [] c = "i"  -> 105
      [] c = "k"  -> 107
      [] c = "l"  -> 108
      [] c = "m"  -> 109
      [] c = "n"  -> 110
      [] c = "o"  -> 111
      [] c = "p"  -> 112
      [] c = "r"  -> 114
      [] c = "s"  -> 115
      [] c = "t"  -> 116
      [] c = "u"  -> 117
      [] c = "w"  -> 119
      [] c = "x"  -> 120
      [] c = "y"  -> 121
      [] c = "z"  -> 122
      [] OTHER    -> 63

RECURSIVE StrLess(_, _)
\* a < b for JavaScript strings
StrLess(a, b) ==
    IF b = <<>> THEN FALSE
    ELSE IF a = <<>> THEN TRUE
    ELSE IF CharCode(Head(a)) # CharCode(Head(b))
         THEN CharCode(Head(a)) < CharCode(Head(b))
    ELSE StrLess(Tail(a), Tail(b))

RECURSIVE SortStrings(_)
\* Array.from(set).sort(): the strings of a set in ascending order
SortStrings(S) ==
    IF S = {} THEN <<>>
    ELSE LET m == CHOOSE x \in S : \A y \in S \ {x} : StrLess(x, y)
         IN  <<m>> \o SortStrings(S \ {m})

RECURSIVE Join(_, _)
\* Array.prototype.join: the strings of a sequence with sep between them
Join(strs, sep) ==
    IF strs = <<>> THEN <<>>
    ELSE IF Len(strs) = 1 THEN strs[1]
    ELSE strs[1] \o sep \o Join(Tail(strs), sep)

RECURSIVE SplitAcc(_, _, _)
SplitAcc(s, cur, sep) ==
    IF s = <<>> THEN <<cur>>
    ELSE IF Head(s) = sep THEN <<cur>> \o SplitAcc(Tail(s), <<>>, sep)
    ELSE SplitAcc(Tail(s), Append(cur, Head(s)), sep)

\* String.prototype.split with a one-character separator
Split(s, sep) == SplitAcc(s, <<>>, sep)

Contains(s, c) == \E i \in 1..Len(s) : s[i] = c

RECURSIVE DoubleQuotes(_)
\* str.replace(/"/g, '""')
DoubleQuotes(s) ==
    IF s = <<>> THEN <<>>
    ELSE IF Head(s) = "\"" THEN <<"\"", "\"">> \o DoubleQuotes(Tail(s))
    ELSE <<Head(s)>> \o DoubleQuotes(Tail(s))

\* escapeCSV that wraps without doubling the quotes inside
escapeCSV_noDoubling(str) ==
    IF Contains(str, ",") \/ Contains(str, "\"") \/ Contains(str, "\n")
       \/ Contains(str, "\r")
    THEN <<"\"">> \o str \o <<"\"">>
    ELSE str

\* escapeCSV that never quotes
escapeCSV_noQuoting(str) == str

\* escapeCSV on a string (null and undefined are mapped to "" by the callers'
\* flattenValue before they reach it)
escapeCSV(str) ==
    IF Contains(str, ",") \/ Contains(str, "\"") \/ Contains(str, "\n")
       \/ Contains(str, "\r")
    THEN <<"\"">> \o DoubleQuotes(str) \o <<"\"">>
    ELSE str

MapEscape(strs) == [i \in 1..Len(strs) |-> escapeCSV(strs[i])]

\* ------------------------------------------------------ JavaScript values

\* A JavaScript value: null, a string, an array of strings or an object (its
\* entries in insertion order, each [k |-> key, v |-> value]).
JNull == [t |-> "null", s |-> <<>>, items |-> <<>>, kv |-> <<>>]
JStr(str) == [t |-> "str", s |-> str, items |-> <<>>, kv |-> <<>>]
JArr(strs) == [t |-> "arr", s |-> <<>>, items |-> strs, kv |-> <<>>]
JObj(entries) == [t |-> "obj", s |-> <<>>, items |-> <<>>, kv |-> entries]

\* !value for the values above: null and "" are falsy, every array and every
\* object is truthy, also the empty array
Falsy(v) == v.t = "null" \/ (v.t = "str" /\ v.s = <<>>)

\* obj[key], JNull standing for undefined; the last entry of a key wins
HasKey(obj, key) == \E i \in 1..Len(obj.kv) : obj.kv[i].k = key
Get(obj, key) ==
    IF HasKey(obj, key)
    THEN LET i == CHOOSE j \in 1..Len(obj.kv) :
                    /\ obj.kv[j].k = key
                    /\ \A h \in (j+1)..Len(obj.kv) : obj.kv[h].k # key
         IN  obj.kv[i].v
    ELSE JNull

\* f with the entries of g put on top (fields[name] = ..., Object.assign)
Override(f, g) ==
    [k \in DOMAIN f \cup DOMAIN g |-> IF k \in DOMAIN g THEN g[k] ELSE f[k]]

\* ---------------------------------------------------------------- csv-utils

RECURSIVE JsonStringify(_)
\* JSON.stringify for the values above (strings of the model need no escapes
\* other than the quote)
JsonStringify(v) ==
    CASE v.t = "null" -> <<"n", "u", "l", "l">>
      [] v.t = "str"  -> <<"\"">> \o v.s \o <<"\"">>
      [] v.t = "arr"  ->
            <<"[">> \o Join([i \in 1..Len(v.items) |->
                                <<"\"">> \o v.items[i] \o <<"\"">>], <<",">>)
                    \o <<"]">>
      [] OTHER ->
            <<"{">> \o Join([i \in 1..Len(v.kv) |->
                                <<"\"">> \o v.kv[i].k \o <<"\"", ":">>
                                \o JsonStringify(v.kv[i].v)], <<",">>)
                    \o <<"}">>

\* flattenValue: the text of one cell
flattenValue(value) ==
    CASE value.t = "null" -> <<>>
      [] value.t = "str"  -> value.s
      [] value.t = "arr"  ->
            IF value.items = <<>> THEN <<>> ELSE Join(value.items, <<";", " ">>)
      [] OTHER -> JsonStringify(value)

RECURSIVE extractAllFields(_, _)
RECURSIVE ExtractEntries(_, _, _)
\* the for-loop of extractAllFields over Object.entries(obj)
ExtractEntries(kv, prefix, fields) ==
    IF kv = <<>> THEN fields
    ELSE LET key == Head(kv).k
             value == Head(kv).v
             fieldName == IF prefix # <<>> THEN prefix \o <<".">> \o key ELSE key
             added == IF value.t = "null" THEN fieldName :> JStr(<<>>)
                      ELSE IF value.t = "obj" THEN extractAllFields(value, fieldName)
                      ELSE fieldName :> value
         IN  ExtractEntries(Tail(kv), prefix, Override(fields, added))

\* extractAllFields: dotted field path -> value
extractAllFields(obj, prefix) ==
    CASE obj.t = "null" -> <<>>
      [] obj.t = "str"  ->
            (IF prefix # <<>> THEN prefix ELSE <<"v", "a", "l", "u", "e">>) :> obj
      [] obj.t = "arr"  ->
            (IF prefix # <<>> THEN prefix ELSE <<"a", "r", "r", "a", "y">>)
                :> JStr(Join(obj.items, <<";", " ">>))
      [] OTHER -> ExtractEntries(obj.kv, prefix, <<>>)

\* getFieldNames that stops at the top-level keys
getFieldNames_topLevel(obj) == {obj.kv[i].k : i \in 1..Len(obj.kv)}

\* getFieldNames: the set of field paths of one record
getFieldNames(obj) == DOMAIN extractAllFields(obj, <<>>)

\* objectToCSVRow over the record's own fields instead of fieldOrder
objectToCSVRow_ownFields(obj, fieldOrder) ==
    LET fields == extractAllFields(obj, <<>>)
        own == SortStrings(DOMAIN fields)
    IN  Join([i \in 1..Len(own) |-> escapeCSV(flattenValue(fields[own[i]]))], <<",">>)

\* objectToCSVRow: one row, a cell per field of fieldOrder ("" where the record
\* has no such field)
objectToCSVRow(obj, fieldOrder) ==
    LET fields == extractAllFields(obj, <<>>)
        cell(i) == IF fieldOrder[i] \in DOMAIN fields
                   THEN escapeCSV(flattenValue(fields[fieldOrder[i]]))
                   ELSE <<>>
    IN  Join([i \in 1..Len(fieldOrder) |-> cell(i)], <<",">>)

\* ----------------------------------------------- exportTasksAsCSV.writeTask

\* the header line for a set of field paths
HeaderLine(fieldNames) == Join(MapEscape(SortStrings(fieldNames)), <<",">>)

\* lines[0] = newHeader; lines.join("\n") + "\n"
RewriteHeader(currentContent, newHeader) ==
    LET lines == Split(currentContent, "\n")
    IN  Join([lines EXCEPT ![1] = newHeader], <<"\n">>) \o <<"\n">>

\* whether writeTask(task) writes or rewrites the header
WritesHeader(c, task) ==
    \/ ~c.headerWritten
    \/ getFieldNames(task) \ c.allFieldNames # {}

\* a writeTask whose two writes are one: a rejected append leaves the file, and
\* so the header, as it was before the step
writeTask_atomic(c, task, fail) ==
    LET all == c.allFieldNames \cup getFieldNames(task)
        merged == [c EXCEPT !.allFieldNames = all]
        header == IF ~c.headerWritten THEN HeaderLine(all) \o <<"\n">>
                  ELSE IF all # c.allFieldNames
                  THEN RewriteHeader(c.file, HeaderLine(all))
                  ELSE c.file
        row == objectToCSVRow(task, SortStrings(all))
    IN  IF fail # "none"
        THEN [csv |-> merged, threw |-> TRUE]
        ELSE [csv |-> [merged EXCEPT !.file = header \o row \o <<"\n">>,
                                     !.headerWritten = TRUE,
                                     !.taskCount = @ + 1],
              threw |-> FALSE]

\* a writeTask that puts the row at the start of the file
writeTask_rowFirst(c, task, fail) ==
    LET all == c.allFieldNames \cup getFieldNames(task)
        row == objectToCSVRow(task, SortStrings(all))
    IN  [csv |-> [c EXCEPT !.allFieldNames = all, !.headerWritten = TRUE,
                           !.file = row \o <<"\n">> \o @,
                           !.taskCount = @ + 1],
         threw |-> FALSE]

\* writeTask(task) on the writer state c. fail names the file operation that
\* rejects: "none", "header" (the writeFile of the header) or "append" (the
\* appendFile of the row). A rejected operation leaves the file as it was.
\* The result is the writer state afterwards and whether writeTask threw.
writeTask(c, task, fail) ==
    LET all == c.allFieldNames \cup getFieldNames(task)
        hasNewFields == all # c.allFieldNames
        merged == [c EXCEPT !.allFieldNames = all]
        afterHeader ==
            IF ~c.headerWritten
            THEN [merged EXCEPT !.file = HeaderLine(all) \o <<"\n">>,
                                !.headerWritten = TRUE]
            ELSE IF hasNewFields
            THEN [merged EXCEPT !.file = RewriteHeader(c.file, HeaderLine(all))]
            ELSE merged
        row == objectToCSVRow(task, SortStrings(all))
    IN  IF fail = "header" /\ WritesHeader(c, task)
        THEN [csv |-> merged, threw |-> TRUE]
        ELSE IF fail = "append"
        THEN [csv |-> afterHeader, threw |-> TRUE]
        ELSE [csv |-> [afterHeader EXCEPT !.file = @ \o row \o <<"\n">>,
                                          !.taskCount = @ + 1],
              threw |-> FALSE]

\* the writer state at the start of exportTasksAsCSV
NewCsv == [file |-> <<>>, headerWritten |-> FALSE, allFieldNames |-> {},
           taskCount |-> 0, allLists |-> <<>>, listsFile |-> <<>>]

\* objectsToCSV: header plus one row per object, "" for no objects
objectsToCSV(objects) ==
    IF objects = <<>> THEN <<>>
    ELSE LET allFields == UNION {getFieldNames(objects[i]) : i \in 1..Len(objects)}
             sortedFields == SortStrings(allFields)
             header == Join(MapEscape(sortedFields), <<",">>)
             rows == [i \in 1..Len(objects) |-> objectToCSVRow(objects[i], sortedFields)]
         IN  Join(<<header>> \o rows, <<"\n">>)

\* ------------------------------------------------------------- the remote

K_id == <<"i", "d">>
K_name == <<"n", "a", "m", "e">>
K_task == <<"t", "a", "s", "k">>
K_subtasks == <<"s", "u", "b", "t", "a", "s", "k", "s">>
K_description == <<"d", "e", "s", "c", "r", "i", "p", "t", "i", "o", "n">>
K_markdown_description ==
    <<"m", "a", "r", "k", "d", "o", "w", "n", "_">> \o K_description

Entry(key, value) == [k |-> key, v |-> value]

\* a list or folder object as the API returns it
Named(id, name) == JObj(<<Entry(K_id, JStr(id)), Entry(K_name, JStr(name))>>)

IdOf(obj) == Get(obj, K_id).s
NameOf(obj) == Get(obj, K_name).s

\* the shapes in which the bulk endpoint returns a task
BulkShapes == {"complete", "emptySubtasks", "noDescription", "emptyDescription"}

BulkTask(id, shape) ==
    JObj(<<Entry(K_id, JStr(id))>>
         \o (IF shape = "emptySubtasks" THEN <<Entry(K_subtasks, JArr(<<>>))>>
             ELSE <<Entry(K_subtasks, JArr(<<<<"s", "1">>>>))>>)
         \o (IF shape = "noDescription" THEN <<>>
             ELSE IF shape = "emptyDescription" THEN <<Entry(K_description, JStr(<<>>))>>
             ELSE <<Entry(K_description, JStr(<<"a", ",", "b">>))>>)
         \o <<Entry(K_markdown_description, JStr(<<"m">>))>>)

\* the detailed record of a task, as /task/{id} returns it
FullTask(id) ==
    JObj(<<Entry(K_id, JStr(id)),
           Entry(K_subtasks, JArr(<<<<"s", "1">>>>)),
           Entry(K_description, JStr(<<"a", ",", "b">>)),
           Entry(K_markdown_description, JStr(<<"m">>)),
           Entry(<<"u", "r", "l">>, JStr(<<"u">>))>>)

\* a document as a folder or a list names it, with the ids of its children
Listed(id, children) == [id |-> id, children |-> children]

\* what a space holds for getDocuments besides its lists and folders: no doc
\* view and no document in a folder or a list
NoDocPaths ==
    [views       |-> <<>>,
     folderDocs  |-> <<>>,
     folderViews |-> <<>>,
     listDocs    |-> <<>>,
     alias       |-> <<>>]

\* f[k], nothing where f has no k
At(f, k) == IF k \in DOMAIN f THEN f[k] ELSE <<>>

L1 == <<"L", "1">>
L2 == <<"L", "2">>
F1 == <<"F", "1">>
T1 == <<"t", "1">>
T2 == <<"t", "2">>
T3 == <<"t", "3">>

\* A space with one list of its own (two tasks) and one folder holding one list
\* (one task); sh gives the bulk shape of each task.
TaskRemote(sh) ==
    [spaceName   |-> <<"S", " ", "1">>,
     spaceLists  |-> <<Named(L1, <<"A">>)>>,
     folders     |-> <<Named(F1, <<"B">>)>>,
     folderLists |-> (F1 :> <<Named(L2, <<"C">>)>>),
     tasks       |-> (L1 :> <<BulkTask(T1, sh[1]), BulkTask(T2, sh[2])>>)
                     @@ (L2 :> <<BulkTask(T3, sh[3])>>),
     documents   |-> <<>>,
     docPaths    |-> NoDocPaths]

K_status == <<"s", "t", "a", "t", "u", "s">>
K_color == <<"c", "o", "l", "o", "r">>
K_assignee == <<"a", "s", "s", "i", "g", "n", "e", "e">>
K_statuses == <<"s", "t", "a", "t", "u", "s", "e", "s">>

\* the shapes in which the API returns a list: with a nested status, a null
\* assignee, a name that needs quoting, an empty nested object, an array, or a
\* key that spells the path of another list's nested field
ListShapes == {"plain", "status", "assignee", "quoted", "emptyStatus", "statuses", "dotted"}

List(id, shape) ==
    JObj(<<Entry(K_id, JStr(id)),
           Entry(K_name, JStr(IF shape = "quoted" THEN <<"a", "\"", "\n", "b">>
                              ELSE <<"A">>))>>
         \o (CASE shape = "status" ->
                    <<Entry(K_status, JObj(<<Entry(K_status, JStr(<<"a", ",", "b">>)),
                                             Entry(K_color, JNull)>>))>>
                [] shape = "assignee" -> <<Entry(K_assignee, JNull)>>
                [] shape = "emptyStatus" -> <<Entry(K_status, JObj(<<>>))>>
                [] shape = "statuses" -> <<Entry(K_statuses, JArr(<<<<"x">>, <<"y">>>>))>>
                [] shape = "dotted" ->
                    <<Entry(K_status \o <<".">> \o K_color, JStr(<<"x">>))>>
                [] OTHER -> <<>>))

L3 == <<"L", "3">>

\* A space without tasks: up to two lists of its own and one folder holding
\* one list, each list in one of the shapes
ListRemote(shapes, folderShape) ==
    [spaceName   |-> <<"S", " ", "1">>,
     spaceLists  |-> [i \in 1..Len(shapes) |-> List(<<"L", <<"1", "2">>[i]>>, shapes[i])],
     folders     |-> <<Named(F1, <<"B">>)>>,
     folderLists |-> (F1 :> <<List(L3, folderShape)>>),
     tasks       |-> [l \in {L1, L2, L3} |-> <<>>],
     documents   |-> <<>>,
     docPaths    |-> NoDocPaths]

D1 == <<"D", "1">>
D2 == <<"D", "2">>
D3 == <<"D", "3">>
DX == <<"D", "X">>

Page(id, name, parent) ==
    [id |-> id, name |-> name, content |-> <<"c">>, parent_id |-> parent]

\* a document as getDocument returns it; folderId is what getDocuments adds to
\* a document found through a folder's view (<<>> for none)
Document(id, name, parent, pages) ==
    [id |-> id, name |-> name, parent |-> parent, pages |-> pages, folderId |-> <<>>]

\* A space without lists or folders holding the given documents, each shown
\* by a doc view of the space
DocRemote(documents) ==
    [spaceName   |-> <<"S", " ", "1">>,
     spaceLists  |-> <<>>,
     folders     |-> <<>>,
     folderLists |-> <<>>,
     tasks       |-> <<>>,
     documents   |-> documents,
     docPaths    |-> [NoDocPaths EXCEPT
                        !.views = [i \in 1..Len(documents) |-> documents[i].id]]]

\* A space whose documents D1, D2, D3 (without pages) are reached along the
\* given paths: doc views of the space, documents and doc views of folder F1,
\* documents of list L1; alias names the requests that are answered with the
\* document of another id
MergeRemote(views, folderDocs, folderViews, listDocs, alias) ==
    [spaceName   |-> <<"S", " ", "1">>,
     spaceLists  |-> <<Named(L1, <<"A">>)>>,
     folders     |-> <<Named(F1, <<"B">>)>>,
     folderLists |-> (F1 :> <<>>),
     tasks       |-> (L1 :> <<>>),
     documents   |-> <<Document(D1, <<"A">>, <<>>, <<>>),
                       Document(D2, <<"B">>, <<>>, <<>>),
                       Document(D3, <<"C">>, <<>>, <<>>)>>,
     docPaths    |-> [views       |-> views,
                      folderDocs  |-> (F1 :> folderDocs),
                      folderViews |-> (F1 :> folderViews),
                      listDocs    |-> (L1 :> listDocs),
                      alias       |-> alias]]

P1 == <<"p", "1">>
P2 == <<"p", "2">>
P3 == <<"p", "3">>
PX == <<"p", "X">>

DocParents == {<<>>, D1, D2, D3, DX}

\* three documents, each with one page, for every choice of parent references:
\* none, itself, another one, or a document outside the collection
DocChoices ==
    {<<Document(D1, <<"A">>, p1, <<Page(P1, <<"x">>, <<>>)>>),
       Document(D2, <<"B">>, p2, <<Page(P2, <<"y">>, <<>>)>>),
       Document(D3, <<"C">>, p3, <<Page(P3, <<"z">>, <<>>)>>)>>
        : p1 \in DocParents, p2 \in DocParents, p3 \in DocParents}

PageParents == {<<>>, D1, P1, P2, P3, PX}

\* one document with three pages of pairwise distinct ids, the first of which
\* may carry the id of the document, for every choice of parent references:
\* none, the document, a page of the collection, or a page outside it
PageChoices ==
    {<<Document(D1, <<"A">>, <<>>,
                <<Page(i1, <<"x">>, q1), Page(P2, <<"y">>, q2), Page(P3, <<"z">>, q3)>>)>>
        : i1 \in {P1, D1}, q1 \in PageParents, q2 \in PageParents, q3 \in PageParents}

\* ------------------------------------------------------------- bookkeeping

Event(e, op, arg, res) == [e |-> e, op |-> op, arg |-> arg, res |-> res]

\* what a fetch can be answered with: a result, HTTP 429, or another failure
Outcomes == {"ok"} \cup (IF faults < MaxFaults THEN {"rate", "err"} ELSE {})

Failed(r) == IF r = "ok" THEN 0 ELSE 1

NewWalk == [spaceLists |-> <<>>, li |-> 0, folders |-> <<>>, fi |-> 0,
            lists |-> <<>>, fli |-> 0, tasks |-> <<>>, ti |-> 0,
            totalLists |-> 0, totalListsProcessed |-> 0,
            totalTasksProcessed |-> 0]

\* ------------------------------------------ ClickUpClient.getAllTasksInSpace

InFolder == pc \in {"folder", "folderList", "folderTask"}

\* the list whose tasks are being fetched or processed
CurrentList == IF InFolder THEN walk.lists[walk.fli] ELSE walk.spaceLists[walk.li]

\* where the walk goes when the folder at index fi is done with
AfterFolder(w) ==
    IF w.fi < Len(w.folders)
    THEN [w |-> [w EXCEPT !.fi = @ + 1], pc |-> "folder"]
    ELSE [w |-> w, pc |-> "exportEnd"]

\* where the walk goes when the current list is done with (its for-body ended
\* or threw): the next list, the folders, the next folder or the end
AfterList(w) ==
    IF InFolder
    THEN IF w.fli < Len(w.lists)
         THEN [w |-> [w EXCEPT !.fli = @ + 1], pc |-> "folderList"]
         ELSE AfterFolder(w)
    ELSE IF w.li < Len(w.spaceLists)
         THEN [w |-> [w EXCEPT !.li = @ + 1], pc |-> "spaceList"]
         ELSE [w |-> w, pc |-> "getFolders"]

\* const { lists: spaceLists } = await this.getListsInSpace(spaceId): a failure
\* is caught by the outermost try and ends the walk
GetListsInSpace ==
    /\ pc = "getListsInSpace"
    /\ \E r \in Outcomes :
        /\ faults' = faults + Failed(r)
        /\ IF r = "ok"
           THEN /\ trace' = Append(trace, Event("fetch", "getListsInSpace", <<>>, r))
                /\ walk' = [walk EXCEPT !.spaceLists = remote.spaceLists,
                                        !.totalLists = Len(remote.spaceLists),
                                        !.li = 1]
                /\ pc' = IF remote.spaceLists = <<>> THEN "getFolders" ELSE "spaceList"
           ELSE /\ trace' = trace \o <<Event("fetch", "getListsInSpace", <<>>, r),
                                       Event("errorLog", "space", <<>>, r)>>
                /\ walk' = walk
                /\ pc' = "exportEnd"
    /\ UNCHANGED <<applied, cli, opts, remote, csv, docs, writes, dirs, outcome, delivered>>

\* const { tasks } = await this.getTasks(list.id, true): getTasks catches every
\* failure of its request and answers { tasks: [] }
GetTasks ==
    /\ pc \in {"spaceList", "folderList"}
    /\ \E r \in Outcomes :
        LET id == IdOf(CurrentList)
            tasks == IF r = "ok" THEN remote.tasks[id] ELSE <<>>
            done == AfterList([walk EXCEPT !.totalListsProcessed = @ + 1])
        IN  /\ faults' = faults + Failed(r)
            /\ trace' = Append(trace, Event("fetch", "getTasks", id, r))
            /\ IF tasks = <<>>
               THEN /\ walk' = [done.w EXCEPT !.tasks = <<>>]
                    /\ pc' = done.pc
               ELSE /\ walk' = [walk EXCEPT !.tasks = tasks, !.ti = 1]
                    /\ pc' = IF InFolder THEN "folderTask" ELSE "spaceTask"
    /\ UNCHANGED <<applied, cli, opts, remote, csv, docs, writes, dirs, outcome, delivered>>

\* needsFullFetch with an empty array taken for a missing field
needsFullFetch_emptyArrayMissing(task) ==
    \E key \in {K_subtasks, K_description, K_markdown_description} :
        Falsy(Get(task, key)) \/ Get(task, key) = JArr(<<>>)

\* const needsFullFetch = !task.subtasks || !task.description || !task.markdown_description
needsFullFetch(task) ==
    \/ Falsy(Get(task, K_subtasks))
    \/ Falsy(Get(task, K_description))
    \/ Falsy(Get(task, K_markdown_description))

\* getTask: the detailed record, or null when the request fails
getTask(id, r) == IF r = "ok" THEN FullTask(id) ELSE JNull

\* finalTask without the fallback to the bulk record
FinalTask_noFallback(fullTaskResponse, task) ==
    IF fullTaskResponse.t = "obj" /\ ~Falsy(Get(fullTaskResponse, K_task))
    THEN Get(fullTaskResponse, K_task)
    ELSE fullTaskResponse

\* finalTask = fullTaskResponse?.task || fullTaskResponse || task
FinalTask(fullTaskResponse, task) ==
    IF fullTaskResponse.t = "obj" /\ ~Falsy(Get(fullTaskResponse, K_task))
    THEN Get(fullTaskResponse, K_task)
    ELSE IF ~Falsy(fullTaskResponse) THEN fullTaskResponse
    ELSE task

\* the file operations of writeTask that can be made to fail
WriteFails(c, task) ==
    {"none"} \cup (IF faults < MaxFaults
                   THEN {"append"} \cup (IF WritesHeader(c, task) THEN {"header"} ELSE {})
                   ELSE {})

\* One pass of the for-loop over the tasks of a list: the completeness check,
\* the detail fetch when needed, and the onTask callback (writeTask). A
\* rejection of onTask is caught by the try around the list.
ProcessTask ==
    /\ pc \in {"spaceTask", "folderTask"}
    /\ LET task == walk.tasks[walk.ti]
           id == IdOf(task)
           needs == needsFullFetch(task)
       IN  \E r \in (IF needs THEN Outcomes ELSE {"ok"}) :
           LET finalTask == IF needs THEN FinalTask(getTask(id, r), task) ELSE task
               counted == [walk EXCEPT !.totalTasksProcessed = @ + 1]
               fetched == IF needs THEN <<Event("fetch", "getTask", id, r)>> ELSE <<>>
           IN  \E f \in WriteFails(csv, finalTask) :
               LET w == writeTask(csv, finalTask, f)
                   last == walk.ti = Len(walk.tasks)
                   done == AfterList([counted EXCEPT !.totalListsProcessed = @ + 1])
                   thrown == AfterList(counted)
               IN  /\ faults' = faults + Failed(r) + (IF f = "none" THEN 0 ELSE 1)
                   /\ csv' = w.csv
                   /\ delivered' = Append(delivered, finalTask)
                   /\ IF w.threw
                      THEN /\ trace' = trace \o fetched
                                  \o <<Event("onTask", "threw", id, f),
                                       Event("errorLog", "list", IdOf(CurrentList), f)>>
                           /\ walk' = thrown.w
                           /\ pc' = thrown.pc
                      ELSE /\ trace' = trace \o fetched
                                  \o <<Event("onTask", "ok", id, f)>>
                           /\ IF last
                              THEN walk' = done.w /\ pc' = done.pc
                              ELSE walk' = [counted EXCEPT !.ti = @ + 1] /\ pc' = pc
    /\ UNCHANGED <<applied, cli, opts, remote, docs, writes, dirs, outcome>>

\* const { folders } = await this.getFolders(spaceId): a failure is caught, a
\* rate limit is logged with the total processed, and the walk ends
GetFolders ==
    /\ pc = "getFolders"
    /\ \E r \in Outcomes :
        /\ faults' = faults + Failed(r)
        /\ IF r = "ok"
           THEN /\ trace' = Append(trace, Event("fetch", "getFolders", <<>>, r))
                /\ walk' = [walk EXCEPT !.folders = remote.folders, !.fi = 1]
                /\ pc' = IF remote.folders = <<>> THEN "exportEnd" ELSE "folder"
           ELSE /\ trace' = trace \o <<Event("fetch", "getFolders", <<>>, r)>>
                      \o (IF r = "rate"
                          THEN <<Event("rateLimitLog", "space", <<>>, r)>> ELSE <<>>)
                /\ walk' = walk
                /\ pc' = "exportEnd"
    /\ UNCHANGED <<applied, cli, opts, remote, csv, docs, writes, dirs, outcome, delivered>>

\* const { lists } = await this.getLists(folder.id): a failure is caught per
\* folder, a rate limit is logged, and the next folder follows
GetLists ==
    /\ pc = "folder"
    /\ \E r \in Outcomes :
        LET id == IdOf(walk.folders[walk.fi])
            lists == remote.folderLists[id]
            skip == AfterFolder(walk)
        IN  /\ faults' = faults + Failed(r)
            /\ IF r = "ok"
               THEN /\ trace' = Append(trace, Event("fetch", "getLists", id, r))
                    /\ IF lists = <<>>
                       THEN walk' = [skip.w EXCEPT !.lists = <<>>] /\ pc' = skip.pc
                       ELSE /\ walk' = [walk EXCEPT !.lists = lists, !.fli = 1]
                            /\ pc' = "folderList"
               ELSE /\ trace' = trace \o <<Event("fetch", "getLists", id, r)>>
                          \o (IF r = "rate"
                              THEN <<Event("rateLimitLog", "folder", id, r)>> ELSE <<>>)
                          \o <<Event("errorLog", "folder", id, r)>>
                    /\ walk' = skip.w
                    /\ pc' = skip.pc
    /\ UNCHANGED <<applied, cli, opts, remote, csv, docs, writes, dirs, outcome, delivered>>

\* ----------------------------------------------------- names and paths

Illegal == {"<", ">", ":", "\"", "/", "\\", "|", "?", "*"}
Whitespace == {" ", "\t", "\n", "\r"}

RECURSIVE SkipClass(_, _)
SkipClass(s, class) ==
    IF s # <<>> /\ Head(s) \in class THEN SkipClass(Tail(s), class) ELSE s

RECURSIVE CollapseRuns(_, _, _)
\* every maximal run of characters of class replaced by one repl
CollapseRuns(s, class, repl) ==
    IF s = <<>> THEN <<>>
    ELSE IF Head(s) \in class
         THEN <<repl>> \o CollapseRuns(SkipClass(s, class), class, repl)
    ELSE <<Head(s)>> \o CollapseRuns(Tail(s), class, repl)

RECURSIVE SkipClassEnd(_, _)
SkipClassEnd(s, class) ==
    IF s # <<>> /\ s[Len(s)] \in class
    THEN SkipClassEnd(SubSeq(s, 1, Len(s) - 1), class) ELSE s

\* String.prototype.trim
Trim(s) == SkipClassEnd(SkipClass(s, Whitespace), Whitespace)

\* name.replace(/[<>:"/\\|?*]/g, "_").replace(/\s+/g, "_")
\*     .replace(/_{2,}/g, "_").trim()
sanitizeFileName(name) ==
    LET legal == [i \in 1..Len(name) |-> IF name[i] \in Illegal THEN "_" ELSE name[i]]
        spaced == CollapseRuns(legal, Whitespace, "_")
        single == CollapseRuns(spaced, {"_"}, "_")
    IN  Trim(single)

Dot == <<".">>
DotDot == <<".", ".">>

\* path.join(base, segment) for a segment without a separator; a path is the
\* sequence of its components
JoinPath(base, segment) ==
    IF segment = <<>> \/ segment = Dot THEN base
    ELSE IF segment = DotDot
         THEN IF base = <<>> \/ base[Len(base)] = DotDot
              THEN Append(base, DotDot)
              ELSE SubSeq(base, 1, Len(base) - 1)
    ELSE Append(base, segment)

\* this.outputDir
OutputDir == << <<"o", "u", "t">> >>

Md == <<".", "m", "d">>
UntitledPage == <<"U", "n", "t", "i", "t", "l", "e", "d", " ", "P", "a", "g", "e">>

IsBlank(s) == \A i \in 1..Len(s) : s[i] \in Whitespace

\* ------------------------------------------------- savePage, saveDocument

\* savePage with the id of the page as the name of its file
savePage_byId(page, basePath) ==
    LET shown == IF page.name # <<>> THEN page.name ELSE UntitledPage
    IN  [dir  |-> basePath,
         file |-> page.id \o Md,
         kind |-> "page",
         id   |-> page.id,
         text |-> <<"#", " ">> \o shown \o <<"\n", "\n">>
                  \o (IF ~IsBlank(page.content) THEN page.content
                      ELSE <<"> Note: This page has no content.", "\n">>)]

\* savePage(page, basePath): the file it writes
savePage(page, basePath) ==
    LET shown == IF page.name # <<>> THEN page.name ELSE UntitledPage
    IN  [dir  |-> basePath,
         file |-> sanitizeFileName(shown) \o Md,
         kind |-> "page",
         id   |-> page.id,
         text |-> <<"#", " ">> \o shown \o <<"\n", "\n">>
                  \o (IF ~IsBlank(page.content) THEN page.content
                      ELSE <<"> Note: This page has no content.", "\n">>)]

RECURSIVE Flatten(_)
Flatten(seqs) == IF seqs = <<>> THEN <<>> ELSE Head(seqs) \o Flatten(Tail(seqs))

\* node.pages.filter(p => p.parent_id === id)
PagesUnder(pages, id) ==
    LET Test(p) == p.parent_id = id IN SelectSeq(pages, Test)

\* pages with no parent or whose parent is the document
RootPages(node, pages) ==
    LET Test(p) == p.parent_id = <<>> \/ p.parent_id = node.id
    IN  SelectSeq(pages, Test)

\* the ids that saveDocument records as saved before it looks for orphans
SavedPageIds(node, pages) ==
    LET rootPages == RootPages(node, pages)
        rootIds == {rootPages[i].id : i \in 1..Len(rootPages)}
    IN  rootIds \cup {pages[j].id : j \in {h \in 1..Len(pages) :
                                            pages[h].parent_id \in rootIds}}

\* pageMap.get(id) answering the first page of the collection
PageById_first(pages, id) == pages[1]

\* pageMap.get(id): the last page with that id
PageById(pages, id) ==
    pages[CHOOSE j \in 1..Len(pages) :
            /\ pages[j].id = id
            /\ \A h \in (j+1)..Len(pages) : pages[h].id # id]

\* saveDocument(node, basePath) with node.pages = pages (<<>> for none): the
\* files it writes, in order, and the directories it makes sure exist
saveDocument(node, pages, basePath) ==
    LET docPath == JoinPath(basePath, sanitizeFileName(node.name))
        rootPages == RootPages(node, pages)
        subDir(rootPage) == JoinPath(docPath, sanitizeFileName(rootPage.name))
        rootWrites(rootPage) ==
            LET subPages == PagesUnder(pages, rootPage.id)
            IN  <<savePage(rootPage, docPath)>>
                \o [i \in 1..Len(subPages) |-> savePage(subPages[i], subDir(rootPage))]
        saved == SavedPageIds(node, pages)
        IsOrphan(p) == p.id \notin saved
        orphanedPages == SelectSeq(pages, IsOrphan)
        hasParent(p) ==
            p.parent_id # <<>> /\ \E j \in 1..Len(pages) : pages[j].id = p.parent_id
        parentDir(p) ==
            JoinPath(docPath, sanitizeFileName(PageById(pages, p.parent_id).name))
        orphanWrite(p) ==
            IF hasParent(p) THEN savePage(p, parentDir(p)) ELSE savePage(p, docPath)
    IN  IF pages # <<>>
        THEN [writes |->
                Flatten([i \in 1..Len(rootPages) |-> rootWrites(rootPages[i])])
                \o [i \in 1..Len(orphanedPages) |-> orphanWrite(orphanedPages[i])],
              dirs |->
                {docPath}
                \cup {subDir(rootPages[i]) : i \in
                        {j \in 1..Len(rootPages) :
                            PagesUnder(pages, rootPages[j].id) # <<>>}}
                \cup {parentDir(orphanedPages[i]) : i \in
                        {j \in 1..Len(orphanedPages) : hasParent(orphanedPages[j])}}]
        ELSE [writes |->
                <<[dir  |-> basePath,
                   file |-> sanitizeFileName(node.name) \o Md,
                   kind |-> "document",
                   id   |-> node.id,
                   text |-> <<"#", " ">> \o node.name \o <<"\n", "\n">>
                            \o <<"> Note: This document has no pages.", "\n">>]>>,
              dirs |-> {docPath}]

\* --------------------------------------------------- buildDocumentTree

RECURSIVE FirstOccurrences(_, _)
\* the keys of a Map in insertion order: set() of an existing key keeps its place
FirstOccurrences(ids, seen) ==
    IF ids = <<>> THEN <<>>
    ELSE IF Head(ids) \in seen THEN FirstOccurrences(Tail(ids), seen)
    ELSE <<Head(ids)>> \o FirstOccurrences(Tail(ids), seen \cup {Head(ids)})

\* buildDocumentTree that makes a root of a document naming itself as parent
buildDocumentTree_selfParentRoot(documents) ==
    LET ids == [i \in 1..Len(documents) |-> documents[i].id]
        keys == FirstOccurrences(ids, {})
        keySet == {keys[i] : i \in 1..Len(keys)}
        node(id) == documents[CHOOSE j \in 1..Len(documents) : documents[j].id = id]
        attached(id) ==
            node(id).parent # <<>> /\ node(id).parent \in keySet /\ node(id).parent # id
        IsRoot(id) == ~attached(id)
        childrenOf(p) ==
            LET IsChild(id) == attached(id) /\ node(id).parent = p
            IN  SelectSeq(keys, IsChild)
    IN  [rootNodes |-> SelectSeq(keys, IsRoot),
         children  |-> [p \in keySet |-> childrenOf(p)]]

\* a buildDocumentTree of one pass: a document is attached only to a parent
\* that stands before it in the collection
buildDocumentTree_onePass(documents) ==
    LET ids == [i \in 1..Len(documents) |-> documents[i].id]
        keys == FirstOccurrences(ids, {})
        keySet == {keys[i] : i \in 1..Len(keys)}
        at(id) == CHOOSE j \in 1..Len(documents) : documents[j].id = id
        attached(id) ==
            \E j \in 1..(at(id) - 1) : documents[j].id = documents[at(id)].parent
        IsRoot(id) == ~attached(id)
        childrenOf(p) ==
            LET IsChild(id) == attached(id) /\ documents[at(id)].parent = p
            IN  SelectSeq(keys, IsChild)
    IN  [rootNodes |-> SelectSeq(keys, IsRoot),
         children  |-> [p \in keySet |-> childrenOf(p)]]

\* buildDocumentTree(documents): the ids of the root nodes in order, and for
\* every node the ids of its children in order. A document is
\* [id, name, parent, pages], parent = <<>> for no parent (doc.parent?.id || null).
buildDocumentTree(documents) ==
    LET ids == [i \in 1..Len(documents) |-> documents[i].id]
        keys == FirstOccurrences(ids, {})
        keySet == {keys[i] : i \in 1..Len(keys)}
        node(id) == documents[CHOOSE j \in 1..Len(documents) :
                        /\ documents[j].id = id
                        /\ \A h \in (j+1)..Len(documents) : documents[h].id # id]
        attached(id) == node(id).parent # <<>> /\ node(id).parent \in keySet
        IsRoot(id) == ~attached(id)
        childrenOf(p) ==
            LET IsChild(id) == attached(id) /\ node(id).parent = p
            IN  SelectSeq(keys, IsChild)
    IN  [rootNodes |-> SelectSeq(keys, IsRoot),
         children  |-> [p \in keySet |-> childrenOf(p)]]

\* ------------------------------------------------ ClickUpCrawler.crawlSpace

NewDocs == [plan |-> <<>>, allDocuments |-> <<>>, processedDocIds |-> {},
            returned |-> FALSE,
            documents |-> <<>>, di |-> 0, documentsWithContent |-> <<>>,
            built |-> FALSE, rootNodes |-> <<>>, children |-> <<>>, stack |-> <<>>]

SpacePath == JoinPath(OutputDir, sanitizeFileName(remote.spaceName))

\* a crawlSpace that never checks the workspace id
MissingWorkspace_never(workspaceId, includeDocs) == FALSE

\* `!workspaceId && includeDocs`: the empty string is the falsy workspace id
MissingWorkspace(workspaceId, includeDocs) == workspaceId = <<>> /\ includeDocs

\* The entry of crawlSpace: the workspace check, the space directory, and the
\* choice of the first export.
CrawlSpace ==
    /\ pc = "start"
    /\ IF MissingWorkspace(opts.workspaceId, opts.includeDocs)
       THEN /\ outcome' = "rejected"
            /\ pc' = "done"
            /\ dirs' = dirs
       ELSE /\ dirs' = dirs \cup {SpacePath}
            /\ pc' = IF opts.includeTasks THEN "getListsInSpace"
                     ELSE IF opts.includeDocs THEN "getDocuments" ELSE "done"
            /\ outcome' = IF opts.includeTasks \/ opts.includeDocs
                          THEN outcome ELSE "resolved"
    /\ UNCHANGED <<applied, cli, opts, remote, faults, walk, csv, docs, writes, trace, delivered>>

\* an exportTasksAsCSV whose catch throws again: crawlSpace is rejected when
\* a failure was logged during the export
ExportTasksEnd_rethrows ==
    /\ pc = "exportEnd"
    /\ IF \E i \in 1..Len(trace) : trace[i].res \notin {"ok", "none"}
       THEN pc' = "done" /\ outcome' = "rejected"
       ELSE pc' = "exportLists" /\ outcome' = outcome
    /\ trace' = Append(trace, Event("exported", "tasks", <<>>, "none"))
    /\ UNCHANGED <<applied, cli, opts, remote, faults, walk, csv, docs, writes, dirs,
                   delivered>>

\* exportTasksAsCSV after getAllTasksInSpace returned: with no task written
\* the file is emptied if a header was written; a failure is caught
ExportTasksEnd ==
    /\ pc = "exportEnd"
    /\ \E f \in {"none"} \cup (IF faults < MaxFaults /\ csv.taskCount = 0
                                  /\ csv.headerWritten
                               THEN {"truncate"} ELSE {}) :
        /\ faults' = faults + (IF f = "none" THEN 0 ELSE 1)
        /\ csv' = IF csv.taskCount = 0 /\ csv.headerWritten /\ f = "none"
                  THEN [csv EXCEPT !.file = <<>>] ELSE csv
        /\ trace' = Append(trace, Event("exported", "tasks", <<>>, f))
    /\ pc' = "exportLists"
    /\ UNCHANGED <<applied, cli, opts, remote, walk, docs, writes, dirs, outcome, delivered>>

\* exportListsAsCSV: the lists of the space and of its folders, every fetch in
\* its own try, written as task_lists.csv when there is any list; it never throws.
\* rs[1] answers getListsInSpace, rs[2] getFolders, rs[2 + i] getLists of folder i.
ExportLists ==
    /\ pc = "exportLists"
    /\ \E rs \in [1..(2 + Len(remote.folders)) -> {"ok", "rate", "err"}] :
        LET failed == Cardinality({i \in DOMAIN rs : rs[i] # "ok"})
            folders == IF rs[2] = "ok" THEN remote.folders ELSE <<>>
            allLists ==
                (IF rs[1] = "ok" THEN remote.spaceLists ELSE <<>>)
                \o Flatten([i \in 1..Len(folders) |->
                              IF rs[2 + i] = "ok"
                              THEN remote.folderLists[IdOf(folders[i])] ELSE <<>>])
        IN  /\ faults + failed <= MaxFaults
            /\ rs[2] # "ok" => \A i \in 3..(2 + Len(remote.folders)) : rs[i] = "ok"
            /\ faults' = faults + failed
            /\ trace' = trace
                  \o <<Event("fetch", "getListsInSpace", <<>>, rs[1]),
                       Event("fetch", "getFolders", <<>>, rs[2])>>
                  \o [i \in 1..Len(folders) |->
                        Event("fetch", "getLists", IdOf(folders[i]), rs[2 + i])]
                  \o <<Event("exported", "lists", <<>>, "none")>>
            /\ csv' = IF allLists = <<>> THEN csv
                      ELSE [csv EXCEPT !.allLists = allLists,
                                       !.listsFile = objectsToCSV(allLists)]
    /\ pc' = IF opts.includeDocs THEN "getDocuments" ELSE "done"
    /\ outcome' = IF opts.includeDocs THEN outcome ELSE "resolved"
    /\ UNCHANGED <<applied, cli, opts, remote, walk, docs, writes, dirs, delivered>>

\* ------------------------------------------------ ClickUpClient.getDocuments

\* One request or one document visit of getDocuments. scope names the
\* enumerations the step belongs to: when the request of an enumeration fails,
\* or answers nothing, the steps in its scope do not happen. tag is the name of
\* the enumeration the step itself opens.
Step(kind, id, folder, scope, tag) ==
    [kind |-> kind, id |-> id, folder |-> folder, scope |-> scope, tag |-> tag]

Tag(kind, id) == <<kind>> \o id

\* for (const view of docViews): one getDocument per doc view
ViewSteps(ids, folder, scope) ==
    [i \in 1..Len(ids) |-> Step("view", ids[i], folder, scope, <<>>)]

\* for (const doc of documents) await addDocumentRecursively(doc): the document
\* and then its children
AddSteps(listed, scope) ==
    Flatten([i \in 1..Len(listed) |->
        LET children == Tag("children", listed[i].id)
        IN  <<Step("add", listed[i].id, <<>>, scope, children)>>
            \o [j \in 1..Len(listed[i].children) |->
                  Step("add", listed[i].children[j], <<>>, scope \cup {children},
                       Tag("children", listed[i].children[j]))]])

\* for (const list of lists): getDocumentsFromList and its documents
ListSteps(lists, listDocs, scope) ==
    Flatten([i \in 1..Len(lists) |->
        LET l == IdOf(lists[i])
        IN  <<Step("listDocs", l, <<>>, scope, Tag("listDocs", l))>>
            \o AddSteps(At(listDocs, l), scope \cup {Tag("listDocs", l)})])

\* The requests and visits getDocuments makes when every request is answered,
\* in order: the doc views of the space, the documents and doc views of every
\* folder, the documents of the lists of the space and of the folders. (The
\* spaces of the model have no folder inside a folder.)
DocumentPlan(r) ==
    LET p == r.docPaths
        views == <<"views">>
        folders == <<"folders">>
        lists == <<"lists">>
    IN  <<Step("getViews", <<>>, <<>>, {}, views)>>
        \o ViewSteps(p.views, <<>>, {views})
        \o <<Step("getFolders", <<>>, <<>>, {}, folders)>>
        \o Flatten([i \in 1..Len(r.folders) |->
              LET f == IdOf(r.folders[i])
              IN  <<Step("folderDocs", f, f, {folders}, Tag("folderDocs", f))>>
                  \o AddSteps(At(p.folderDocs, f), {folders, Tag("folderDocs", f)})
                  \o <<Step("folderViews", f, f, {folders}, Tag("folderViews", f))>>
                  \o ViewSteps(At(p.folderViews, f), f,
                               {folders, Tag("folderViews", f)})])
        \o <<Step("getListsInSpace", <<>>, <<>>, {}, lists)>>
        \o ListSteps(r.spaceLists, p.listDocs, {lists})
        \o Flatten([i \in 1..Len(r.folders) |->
              LET f == IdOf(r.folders[i])
              IN  <<Step("getLists", f, f, {lists, folders}, Tag("getLists", f))>>
                  \o ListSteps(At(r.folderLists, f), p.listDocs,
                               {lists, folders, Tag("getLists", f)})])

\* the steps that remain when the enumeration tag yields nothing
Drop(plan, tag) ==
    LET Stays(step) == tag \notin step.scope IN SelectSeq(plan, Stays)

\* the document the API answers a request for id with
Stored(id) ==
    LET target == IF id \in DOMAIN remote.docPaths.alias
                  THEN remote.docPaths.alias[id] ELSE id
    IN  remote.documents[CHOOSE j \in 1..Len(remote.documents) :
                            /\ remote.documents[j].id = target
                            /\ \A h \in 1..(j-1) : remote.documents[h].id # target]

\* the last document with an id: the one buildDocumentTree keeps in its map
NodeOf(documents, id) ==
    documents[CHOOSE j \in 1..Len(documents) :
                /\ documents[j].id = id
                /\ \A h \in (j+1)..Len(documents) : documents[h].id # id]

\* the documents as they are, duplicates included
UniqueDocuments_keepAll(allDocuments) == allDocuments

\* Array.from(new Map(allDocuments.map((doc) => [doc.id, doc])).values()): one
\* document per id, at the place of the first and with the value of the last
UniqueDocuments(allDocuments) ==
    LET keys == FirstOccurrences([i \in 1..Len(allDocuments) |-> allDocuments[i].id], {})
    IN  [i \in 1..Len(keys) |-> NodeOf(allDocuments, keys[i])]

\* const result = await this.client.getDocuments(spaceId, workspaceId): the call
GetDocuments ==
    /\ pc = "getDocuments"
    /\ docs' = [docs EXCEPT !.plan = DocumentPlan(remote)]
    /\ trace' = Append(trace, Event("call", "getDocuments", <<>>, "ok"))
    /\ pc' = "enumerate"
    /\ UNCHANGED <<applied, cli, opts, remote, faults, walk, csv, writes, dirs, delivered, outcome>>

\* One enumerating request of getDocuments: getViews, getAllFoldersRecursively,
\* getDocumentsFromFolder, getViewsInFolder, getListsInSpace,
\* getDocumentsFromList or getLists. Its failure is caught (or answered with an
\* empty result) and what it would have enumerated is skipped.
ListDocuments ==
    /\ pc = "enumerate"
    /\ docs.plan # <<>>
    /\ Head(docs.plan).kind \notin {"view", "add"}
    /\ \E r \in Outcomes :
        LET step == Head(docs.plan)
        IN  /\ faults' = faults + Failed(r)
            /\ trace' = Append(trace, Event("docFetch", step.kind, step.id, r))
            /\ docs' = [docs EXCEPT !.plan = IF r = "ok" THEN Tail(docs.plan)
                                             ELSE Drop(Tail(docs.plan), step.tag)]
    /\ UNCHANGED <<applied, cli, opts, remote, pc, walk, csv, writes, dirs, delivered, outcome>>

\* One pass of a loop over doc views: a view whose id was processed is skipped;
\* otherwise getDocument(view.id), and the document is added unless its id
\* was processed. A document found in a folder is given the folder's id.
ViewDocument ==
    /\ pc = "enumerate"
    /\ docs.plan # <<>>
    /\ Head(docs.plan).kind = "view"
    /\ LET step == Head(docs.plan)
       IN  IF step.id \in docs.processedDocIds
           THEN /\ docs' = [docs EXCEPT !.plan = Tail(docs.plan)]
                /\ UNCHANGED <<faults, trace>>
           ELSE \E r \in Outcomes :
                LET document == [Stored(step.id) EXCEPT !.folderId = step.folder]
                    added == r = "ok" /\ document.id \notin docs.processedDocIds
                IN  /\ faults' = faults + Failed(r)
                    /\ trace' = Append(trace, Event("docFetch", "getDocument", step.id, r))
                    /\ docs' = [docs EXCEPT
                          !.plan = Tail(docs.plan),
                          !.processedDocIds = IF added THEN @ \cup {document.id} ELSE @,
                          !.allDocuments = IF added THEN Append(@, document) ELSE @]
    /\ UNCHANGED <<applied, cli, opts, remote, pc, walk, csv, writes, dirs, delivered, outcome>>

\* addDocumentRecursively with the loop over doc.children in the try block only:
\* a failed fetch leaves the children out
AddDocumentRecursively_childrenInTry ==
    /\ pc = "enumerate"
    /\ docs.plan # <<>>
    /\ Head(docs.plan).kind = "add"
    /\ LET step == Head(docs.plan)
       IN  IF step.id \in docs.processedDocIds
           THEN /\ docs' = [docs EXCEPT !.plan = Drop(Tail(docs.plan), step.tag)]
                /\ UNCHANGED <<faults, trace>>
           ELSE \E r \in Outcomes :
                /\ faults' = faults + Failed(r)
                /\ trace' = Append(trace, Event("docFetch", "addDocumentRecursively", step.id, r))
                /\ docs' = [docs EXCEPT
                      !.plan = IF r = "ok" THEN Tail(docs.plan)
                              ELSE Drop(Tail(docs.plan), step.tag),
                      !.processedDocIds = @ \cup {step.id},
                      !.allDocuments = IF r = "ok" THEN Append(@, Stored(step.id)) ELSE @]
    /\ UNCHANGED <<applied, cli, opts, remote, pc, walk, csv, writes, dirs, delivered, outcome>>

\* addDocumentRecursively(doc): nothing for an id already processed (the
\* children are not visited either); otherwise the id is recorded, the document
\* fetched and added, and the children follow also when the fetch failed.
AddDocumentRecursively ==
    /\ pc = "enumerate"
    /\ docs.plan # <<>>
    /\ Head(docs.plan).kind = "add"
    /\ LET step == Head(docs.plan)
       IN  IF step.id \in docs.processedDocIds
           THEN /\ docs' = [docs EXCEPT !.plan = Drop(Tail(docs.plan), step.tag)]
                /\ UNCHANGED <<faults, trace>>
           ELSE \E r \in Outcomes :
                /\ faults' = faults + Failed(r)
                /\ trace' = Append(trace, Event("docFetch", "addDocumentRecursively", step.id, r))
                /\ docs' = [docs EXCEPT
                      !.plan = Tail(docs.plan),
                      !.processedDocIds = @ \cup {step.id},
                      !.allDocuments = IF r = "ok" THEN Append(@, Stored(step.id)) ELSE @]
    /\ UNCHANGED <<applied, cli, opts, remote, pc, walk, csv, writes, dirs, delivered, outcome>>

\* getDocuments returns the documents without duplicates, and crawlSpace goes
\* on with them
ReturnDocuments ==
    /\ pc = "enumerate"
    /\ docs.plan = <<>>
    /\ LET documents == UniqueDocuments(docs.allDocuments)
       IN  /\ docs' = [docs EXCEPT !.documents = documents, !.di = 1, !.returned = TRUE]
           /\ pc' = IF documents = <<>> THEN "done" ELSE "fetchDocument"
           /\ outcome' = IF documents = <<>> THEN "resolved" ELSE outcome
    /\ UNCHANGED <<applied, cli, opts, remote, faults, walk, csv, writes, dirs, trace, delivered>>

\* the requests one getDocument call can be answered with: rs[1] for /view/{id},
\* rs[2] for /doc/{id} (asked only when the first failed), rs[3] for the pages
DocumentOutcomes ==
    {rs \in [1..3 -> {"ok", "rate", "err"}] :
        /\ rs[1] = "ok" => rs[2] = "ok"
        /\ rs[1] # "ok" /\ rs[2] # "ok" => rs[3] = "ok"
        /\ faults + Cardinality({i \in 1..3 : rs[i] # "ok"}) <= MaxFaults}

\* getDocument throws when both metadata requests failed
getDocumentThrows(rs) == rs[1] # "ok" /\ rs[2] # "ok"

\* getDocument(doc.id, workspaceId) for a document the remote holds as doc:
\* the pages are empty when the page request failed (getDocumentPages catches)
getDocument(doc, rs) == [doc EXCEPT !.pages = IF rs[3] = "ok" THEN doc.pages ELSE <<>>]

\* One pass of the loop that fetches every document's content; a failure is
\* logged and thrown again, which rejects crawlSpace.
FetchDocument ==
    /\ pc = "fetchDocument"
    /\ \E rs \in DocumentOutcomes :
        LET doc == Stored(docs.documents[docs.di].id)
            requests ==
                <<Event("fetch", "view", doc.id, rs[1])>>
                \o (IF rs[1] # "ok" THEN <<Event("fetch", "doc", doc.id, rs[2])>> ELSE <<>>)
        IN  /\ faults' = faults + Cardinality({i \in 1..3 : rs[i] # "ok"})
            /\ IF getDocumentThrows(rs)
               THEN /\ trace' = trace \o requests
                          \o <<Event("errorLog", "document", doc.id, rs[2])>>
                    /\ docs' = docs
                    /\ pc' = "done"
                    /\ outcome' = "rejected"
               ELSE /\ trace' = trace \o requests
                          \o <<Event("fetch", "pages", doc.id, rs[3])>>
                    /\ docs' = [docs EXCEPT
                          !.documentsWithContent = Append(@, getDocument(doc, rs)),
                          !.di = @ + 1]
                    /\ pc' = IF docs.di < Len(docs.documents)
                             THEN "fetchDocument" ELSE "buildDocumentTree"
                    /\ outcome' = outcome
    /\ UNCHANGED <<applied, cli, opts, remote, walk, csv, writes, dirs, delivered>>

\* documentsWithContent.find(d => d.id === id)?.pages
FindPages(documents, id) ==
    IF \E j \in 1..Len(documents) : documents[j].id = id
    THEN documents[CHOOSE j \in 1..Len(documents) :
                      /\ documents[j].id = id
                      /\ \A h \in 1..(j-1) : documents[h].id # id].pages
    ELSE <<>>

\* const rootNodes = this.buildDocumentTree(documentsWithContent), and the
\* calls of processDocumentNode that the loop over rootNodes will make: only a
\* root node is given the pages of its document
BuildDocumentTree ==
    /\ pc = "buildDocumentTree"
    /\ LET tree == buildDocumentTree(docs.documentsWithContent)
       IN  /\ docs' = [docs EXCEPT
                  !.built = TRUE,
                  !.rootNodes = tree.rootNodes,
                  !.children = tree.children,
                  !.stack = [i \in 1..Len(tree.rootNodes) |->
                                [id |-> tree.rootNodes[i],
                                 basePath |-> SpacePath,
                                 pages |-> FindPages(docs.documentsWithContent,
                                                     tree.rootNodes[i])]]]
           /\ pc' = IF tree.rootNodes = <<>> THEN "done" ELSE "processDocumentNode"
           /\ outcome' = IF tree.rootNodes = <<>> THEN "resolved" ELSE outcome
    /\ UNCHANGED <<applied, cli, opts, remote, faults, walk, csv, writes, dirs, trace, delivered>>

\* processDocumentNode(node, basePath): saveDocument, then the children in the
\* directory of the node; a child node carries no pages
processDocumentNode(node, pages, basePath, children) ==
    LET saved == saveDocument(node, pages, basePath)
        childrenPath == JoinPath(basePath, sanitizeFileName(node.name))
    IN  [writes |-> saved.writes,
         dirs   |-> saved.dirs \cup (IF children # <<>> THEN {childrenPath} ELSE {}),
         calls  |-> [i \in 1..Len(children) |->
                        [id |-> children[i], basePath |-> childrenPath, pages |-> <<>>]]]

\* One call of processDocumentNode; the calls for the children come next,
\* before the remaining root nodes. A failed file operation rejects crawlSpace.
ProcessDocumentNode ==
    /\ pc = "processDocumentNode"
    /\ \E f \in {"none"} \cup (IF faults < MaxFaults THEN {"mkdir"} ELSE {}) :
        LET call == Head(docs.stack)
            node == NodeOf(docs.documentsWithContent, call.id)
            done == processDocumentNode(node, call.pages, call.basePath,
                                        docs.children[call.id])
            stack == done.calls \o Tail(docs.stack)
        IN  IF f = "none"
            THEN /\ writes' = writes \o done.writes
                 /\ dirs' = dirs \cup done.dirs
                 /\ docs' = [docs EXCEPT !.stack = stack]
                 /\ pc' = IF stack = <<>> THEN "done" ELSE pc
                 /\ outcome' = IF stack = <<>> THEN "resolved" ELSE outcome
                 /\ faults' = faults
                 /\ trace' = trace
            ELSE /\ outcome' = "rejected"
                 /\ pc' = "done"
                 /\ faults' = faults + 1
                 /\ trace' = Append(trace, Event("errorLog", "crawl", call.id, f))
                 /\ UNCHANGED <<writes, dirs, docs>>
    /\ UNCHANGED <<applied, cli, opts, remote, walk, csv, delivered>>

\* ------------------------------------------------------- the crawl, whole

\* no function is called on its own
NoCall == [fn |-> "none", arg |-> <<>>, result |-> <<>>]

\* the command with --space: crawlSpace is called for that space alone
OneSpace == [mode |-> "space", spaces |-> <<>>, si |-> 0, calls |-> <<>>,
             results |-> <<>>, fatal |-> FALSE]

Started(o, r) ==
    /\ opts = o
    /\ remote = r
    /\ pc = "start"
    /\ faults = 0
    /\ walk = NewWalk
    /\ csv = NewCsv
    /\ docs = NewDocs
    /\ writes = <<>>
    /\ dirs = {}
    /\ trace = <<>>
    /\ delivered = <<>>
    /\ outcome = "running"
    /\ cli = OneSpace
    /\ applied = NoCall

Options(includeDocs, includeTasks, workspaceId) ==
    [includeDocs |-> includeDocs, includeTasks |-> includeTasks,
     workspaceId |-> workspaceId]

W1 == <<"w", "1">>

\* a crawl of tasks only, for every shape of the three tasks
InitTasks ==
    \E sh \in [1..3 -> BulkShapes] :
        Started(Options(FALSE, TRUE, W1), TaskRemote(sh))

\* a crawl of documents only, for every choice of parent references
InitDocs ==
    \E ds \in DocChoices : Started(Options(TRUE, FALSE, W1), DocRemote(ds))

\* a crawl of one document, for every arrangement of its pages
InitPages ==
    \E ds \in PageChoices : Started(Options(TRUE, FALSE, W1), DocRemote(ds))

\* a crawl of tasks and documents, and the crawls without a workspace id
InitBoth ==
    \E includeDocs \in BOOLEAN, includeTasks \in BOOLEAN, w \in {<<>>, W1} :
        /\ w = W1 => includeDocs /\ includeTasks
        /\ Started(Options(includeDocs, includeTasks, w),
                   [DocRemote(<<Document(D1, <<"A">>, <<>>, <<>>)>>) EXCEPT
                        !.spaceLists = <<Named(L1, <<"A">>)>>,
                        !.tasks = (L1 :> <<BulkTask(T1, "complete")>>)])

\* a crawl of tasks in a space that has lists but no tasks, for every choice
\* of the lists' shapes
InitLists ==
    \E shapes \in UNION {[1..n -> ListShapes] : n \in 0..2},
       folderShape \in {"plain", "status"} :
        Started(Options(FALSE, TRUE, W1), ListRemote(shapes, folderShape))

\* the names a space or a document may carry: a plain one, the empty one and
\* the two that path.join reads as a directory
PathNames == {<<"A">>, <<>>, Dot, DotDot}

\* the names of the pages: two that sanitize to the same name, and ".."
PageNames == {<<"a", " ", "b">>, <<"a", "_", "b">>, DotDot}

\* a crawl of one document with two pages, the second beside or under the
\* first, for every choice of the names of the space, the document and the pages
InitNames ==
    \E spaceName \in PathNames, name \in PathNames,
       n1 \in PageNames, n2 \in PageNames, parent \in {<<>>, P1} :
        Started(Options(TRUE, FALSE, W1),
                [DocRemote(<<Document(D1, name, <<>>,
                                      <<Page(P1, n1, <<>>), Page(P2, n2, parent)>>)>>)
                    EXCEPT !.spaceName = spaceName])

\* a crawl of documents that are reached along several paths
InitMerge ==
    \E views \in {<<D1>>, <<D1, D2>>},
       folderDocs \in {<<>>, <<Listed(D1, <<D2>>)>>, <<Listed(D3, <<D2>>)>>},
       folderViews \in {<<>>, <<D1>>},
       listDocs \in {<<>>, <<Listed(D2, <<>>)>>},
       alias \in {<<>>, D3 :> D1} :
        Started(Options(TRUE, FALSE, W1),
                MergeRemote(views, folderDocs, folderViews, listDocs, alias))

\* ----------------------------------------------- the command, all spaces

S1 == <<"s", "1">>
S2 == <<"s", "2">>
S3 == <<"s", "3">>

\* a space as getSpaces lists it, with what the API holds for it
Space(id, name, documents) ==
    [id |-> id, remote |-> [DocRemote(documents) EXCEPT !.spaceName = name]]

\* what a space of the workspace may hold: no document, or one with a page
SpaceDocuments ==
    {<<>>, <<Document(D1, <<"A">>, <<>>, <<Page(P1, <<"x">>, <<>>)>>)>>}

\* the workspaces of up to three spaces
SpaceChoices ==
    UNION {{[i \in 1..n |-> Space(<<S1, S2, S3>>[i],
                                  <<"S", " ", <<"1", "2", "3">>[i]>>, ds[i])]
                : ds \in [1..n -> SpaceDocuments]} : n \in 0..3}

\* the command without --space, documents only, before getSpaces is asked
InitAll ==
    \E spaces \in SpaceChoices :
        /\ cli = [OneSpace EXCEPT !.mode = "all", !.spaces = spaces]
        /\ opts = Options(TRUE, FALSE, W1)
        /\ remote = DocRemote(<<>>)
        /\ pc = "getSpaces"
        /\ faults = 0
        /\ walk = NewWalk
        /\ csv = NewCsv
        /\ docs = NewDocs
        /\ writes = <<>>
        /\ dirs = {}
        /\ trace = <<>>
        /\ delivered = <<>>
        /\ outcome = "running"
        /\ applied = NoCall

\* const { spaces } = await client.getSpaces(workspaceId): a failure is caught
\* by the command's outer try, which reports it and exits
GetSpaces ==
    /\ pc = "getSpaces"
    /\ \E r \in Outcomes :
        /\ faults' = faults + Failed(r)
        /\ IF r = "ok"
           THEN /\ trace' = Append(trace, Event("fetch", "getSpaces", <<>>, r))
                /\ pc' = "nextSpace"
                /\ cli' = cli
           ELSE /\ trace' = trace \o <<Event("fetch", "getSpaces", <<>>, r),
                                       Event("errorLog", "fatal", <<>>, r)>>
                /\ pc' = "exit"
                /\ cli' = [cli EXCEPT !.fatal = TRUE]
    /\ UNCHANGED <<applied, opts, remote, walk, csv, docs, writes, dirs, delivered, outcome>>

\* a loop that gives up at the first space whose crawl failed
NextIndex_stopOnFailure(result, si, n) ==
    IF result # "rejected" /\ si < n THEN si + 1 ELSE 0

\* for (const space of spaces) { try { await crawlSpace(...) } catch { log } }:
\* the index of the space crawled after the one at si, whose crawl ended with
\* result (0 when the loop is over)
NextIndex(result, si, n) == IF si < n THEN si + 1 ELSE 0

\* One turn of the loop: the call of crawlSpace under way, if any, has settled
\* (a rejection is caught and logged); crawlSpace is called for the next space,
\* or the loop ends and the command prints "Crawl complete".
NextSpace ==
    /\ cli.mode = "all"
    /\ pc \in {"nextSpace", "done"}
    /\ LET result == IF pc = "done" THEN outcome ELSE "none"
           results == IF pc = "done" THEN Append(cli.results, outcome)
                      ELSE cli.results
           i == NextIndex(result, cli.si, Len(cli.spaces))
       IN  IF i = 0
           THEN /\ pc' = "exit"
                /\ cli' = [cli EXCEPT !.results = results]
                /\ UNCHANGED <<remote, walk, csv, docs, writes, dirs, trace,
                               delivered, outcome>>
           ELSE /\ pc' = "start"
                /\ cli' = [cli EXCEPT !.results = results, !.si = i,
                                      !.calls = Append(@, cli.spaces[i].id)]
                /\ remote' = cli.spaces[i].remote
                /\ walk' = NewWalk
                /\ csv' = NewCsv
                /\ docs' = NewDocs
                /\ writes' = <<>>
                /\ dirs' = {}
                /\ trace' = <<>>
                /\ delivered' = <<>>
                /\ outcome' = "running"
    /\ UNCHANGED <<applied, opts, faults>>

\* --------------------------------------------- ClickUpCrawler.convertToMarkdown

\* The values convertToMarkdown is given: undefined, null, a string, a number,
\* an array, or an object with the properties the function reads (type,
\* content, attrs.level, text, marks; Undefined for a property that is absent,
\* marks as the sequence of the marks' types).
Undefined == [t |-> "undefined"]
MNull == [t |-> "null"]
MStr(s) == [t |-> "str", s |-> s]
MNum(n) == [t |-> "num", n |-> n]
MArr(items) == [t |-> "arr", items |-> items]
MObj(type, content, level, text, marks) ==
    [t |-> "obj", type |-> type, content |-> content, level |-> level,
     text |-> text, marks |-> marks]

\* the value as a condition: undefined, null, "" and 0 are falsy
Truthy(v) ==
    CASE v.t \in {"undefined", "null"} -> FALSE
      [] v.t = "str" -> v.s # <<>>
      [] v.t = "num" -> v.n # 0
      [] OTHER -> TRUE

\* what a call gives: a string, or an exception
Returned(s) == [threw |-> FALSE, s |-> s]
Thrown == [threw |-> TRUE, s |-> <<>>]

\* results.join(sep) after a map whose callback may have thrown
JoinReturned(results, sep) ==
    IF \E i \in 1..Len(results) : results[i].threw THEN Thrown
    ELSE Returned(Join([i \in 1..Len(results) |-> results[i].s], sep))

\* String(n) for the numbers of the model
DecimalString(n) ==
    LET digit(d) == <<"0", "1", "2", "3", "4", "5", "6", "7", "8", "9">>[d + 1]
    IN  IF n < 0 THEN <<"-", digit(0 - n)>> ELSE <<digit(n)>>

\* "#".repeat(n) for n >= 0
Repeat(c, n) == [i \in 1..n |-> c]

RECURSIVE extractText(_)
\* extractText(node): reading node.text of null or undefined is a TypeError
extractText(node) ==
    CASE node.t = "str" -> Returned(node.s)
      [] node.t \in {"null", "undefined"} -> Thrown
      [] node.t \in {"num", "arr"} -> Returned(<<>>)
      [] OTHER ->
            IF Truthy(node.text) THEN Returned(node.text.s)
            ELSE IF node.content.t = "arr"
            THEN JoinReturned([i \in 1..Len(node.content.items) |->
                                  extractText(node.content.items[i])], <<>>)
            ELSE IF Truthy(node.content) THEN extractText(node.content)
            ELSE Returned(<<>>)

\* convertList(node): item.type of null is a TypeError, and so is .map of an
\* item.content that is no array
convertList(node) ==
    IF ~Truthy(node.content) \/ node.content.t # "arr" THEN Returned(<<>>)
    ELSE LET items == node.content.items
             line(item) ==
                CASE item.t \in {"null", "undefined"} -> Thrown
                  [] item.t = "obj" /\ item.type = "listItem" /\ Truthy(item.content) ->
                        IF item.content.t # "arr" THEN Thrown
                        ELSE LET text == JoinReturned(
                                    [i \in 1..Len(item.content.items) |->
                                        extractText(item.content.items[i])], <<" ">>)
                             IN  IF text.threw THEN Thrown
                                 ELSE Returned(<<"-", " ">> \o text.s)
                  [] OTHER -> Returned(<<>>)
             lines == [i \in 1..Len(items) |-> line(items[i])]
             NonEmpty(s) == s # <<>>
         IN  IF \E i \in 1..Len(lines) : lines[i].threw THEN Thrown
             ELSE Returned(Join(SelectSeq([i \in 1..Len(lines) |-> lines[i].s],
                                          NonEmpty), <<"\n">>))

\* the character U+0060, which cannot be written inside a string here
Backquote == "U+0060"

RECURSIVE ApplyMarks(_, _)
\* the for-loop over content.marks (a link mark of the model has no href)
ApplyMarks(text, marks) ==
    IF marks = <<>> THEN text
    ELSE LET mark == Head(marks)
             marked == CASE mark = "bold" -> <<"*", "*">> \o text \o <<"*", "*">>
                         [] mark = "italic" -> <<"*">> \o text \o <<"*">>
                         [] mark = "code" -> <<Backquote>> \o text \o <<Backquote>>
                         [] mark = "link" -> <<"[">> \o text \o <<"]", "(", ")">>
                         [] OTHER -> text
         IN  ApplyMarks(marked, Tail(marks))

\* String(content) for what reaches the last line of convertToMarkdown
StringOf(content) ==
    CASE content.t = "null" -> <<"n", "u", "l", "l">>
      [] content.t = "undefined" -> <<"u", "n", "d", "e", "f", "i", "n", "e", "d">>
      [] content.t = "num" -> DecimalString(content.n)
      [] OTHER -> <<"[", "o", "b", "j", "e", "c", "t", " ", "O", "b", "j", "e", "c", "t", "]">>

RECURSIVE convertToMarkdown(_)
\* convertToMarkdown(content): "#".repeat(level) with a negative level is a
\* RangeError
convertToMarkdown(content) ==
    CASE content.t = "str" -> Returned(content.s)
      [] content.t = "arr" ->
            JoinReturned([i \in 1..Len(content.items) |->
                             convertToMarkdown(content.items[i])], <<"\n", "\n">>)
      [] content.t = "obj" ->
            IF content.type = "doc" /\ Truthy(content.content)
            THEN convertToMarkdown(content.content)
            ELSE IF content.type = "paragraph" /\ Truthy(content.content)
            THEN LET inner == convertToMarkdown(content.content)
                 IN  IF inner.threw THEN Thrown ELSE Returned(inner.s \o <<"\n">>)
            ELSE IF content.type = "heading"
            THEN LET level == IF Truthy(content.level) THEN content.level.n ELSE 1
                     text == extractText(content)
                 IN  IF text.threw \/ level < 0 THEN Thrown
                     ELSE Returned(Repeat("#", level) \o <<" ">> \o text.s \o <<"\n">>)
            ELSE IF content.type \in {"bulletList", "orderedList"}
            THEN convertList(content)
            ELSE IF content.type = "listItem"
            THEN LET text == extractText(content)
                 IN  IF text.threw THEN Thrown
                     ELSE Returned(<<"-", " ">> \o text.s \o <<"\n">>)
            ELSE IF content.type = "text"
            THEN Returned(ApplyMarks(IF Truthy(content.text) THEN content.text.s
                                     ELSE <<>>, content.marks))
            ELSE IF Truthy(content.content)
            THEN convertToMarkdown(content.content)
            ELSE Returned(StringOf(content))
      [] OTHER -> Returned(StringOf(content))

TextNode(s, marks) == MObj("text", Undefined, Undefined, MStr(s), marks)

\* the elements the content of a node may hold
MdLeaves ==
    {MNull, MStr(<<"a">>), TextNode(<<"b">>, <<>>),
     TextNode(<<"b">>, <<"bold", "link">>),
     MObj("listItem", MArr(<<TextNode(<<"c">>, <<>>)>>), Undefined, Undefined, <<>>),
     MObj("listItem", MStr(<<"c">>), Undefined, Undefined, <<>>)}

MdTypes == {"doc", "paragraph", "heading", "bulletList", "orderedList",
            "listItem", "text", "mention"}

MdContents ==
    {Undefined, MStr(<<"a">>)}
        \cup {MArr(<<x>>) : x \in MdLeaves}
        \cup {MArr(<<x, y>>) : x \in MdLeaves, y \in MdLeaves}

MdLevels == {Undefined, MNum(0), MNum(2), MNum(-1)}

\* the nodes convertToMarkdown is called with
MdNodes ==
    MdLeaves \cup {Undefined, MNum(0)}
        \cup {MObj(type, content, level, Undefined, <<>>) :
                type \in MdTypes, content \in MdContents, level \in MdLevels}

\* ------------------------------------------ functions called on their own

\* fn is about to be called with arg, outside of any crawl
Calling(fn, arg) ==
    /\ applied = [fn |-> fn, arg |-> arg, result |-> <<>>]
    /\ pc = "call"
    /\ opts = Options(FALSE, FALSE, W1)
    /\ remote = DocRemote(<<>>)
    /\ faults = 0
    /\ walk = NewWalk
    /\ csv = NewCsv
    /\ docs = NewDocs
    /\ writes = <<>>
    /\ dirs = {}
    /\ trace = <<>>
    /\ delivered = <<>>
    /\ outcome = "running"
    /\ cli = OneSpace

\* the call returned result (or threw)
Return(result) ==
    /\ applied' = [applied EXCEPT !.result = result]
    /\ pc' = "returned"
    /\ UNCHANGED <<opts, remote, faults, walk, csv, docs, writes, dirs, trace,
                   delivered, outcome, cli>>

\* escapeCSV(value): "" for null and undefined, else the escaped String(value)
escapeCSVAny(value) ==
    IF value.t \in {"null", "undefined"} THEN <<>>
    ELSE escapeCSV(IF value.t = "num" THEN DecimalString(value.n) ELSE value.s)

\* the characters of the values escapeCSV is called with
CsvChars == {"a", ",", "\"", "\n", "\r"}

HeSaidHi == <<"H", "e", " ", "s", "a", "i", "d", " ", "\"", "h", "i", "\"">>

\* null, undefined, a number, and the strings of up to MaxCsvLen characters
CsvValues ==
    {MNull, Undefined, MNum(7), MStr(HeSaidHi)}
        \cup {MStr(str) : str \in UNION {[1..n -> CsvChars] : n \in 0..MaxCsvLen}}

InitEscape == \E value \in CsvValues : Calling("escapeCSV", value)

EscapeCSV ==
    /\ pc = "call"
    /\ applied.fn = "escapeCSV"
    /\ Return(escapeCSVAny(applied.arg))

\* the orderings of a sequence
Orderings(seq) ==
    {[i \in 1..Len(seq) |-> seq[p[i]]] :
        p \in {q \in [1..Len(seq) -> 1..Len(seq)] :
                  \A i, j \in 1..Len(seq) : q[i] = q[j] => i = j}}

\* buildDocumentTree is about to be called on a collection of three documents
\* and on another ordering of it
InitOrderings ==
    \E ds \in DocChoices : \E other \in Orderings(ds) :
        Calling("buildDocumentTree", [documents |-> ds, reordered |-> other])

BuildDocumentTrees ==
    /\ pc = "call"
    /\ applied.fn = "buildDocumentTree"
    /\ Return([documents |-> buildDocumentTree(applied.arg.documents),
               reordered |-> buildDocumentTree(applied.arg.reordered)])

\* the characters of the display names sanitizeFileName is called with
NameChars == {"a", " ", "_", "/"}

\* leading or trailing whitespace of a display name
Paddings == {<<>>, <<" ">>, <<"\t", " ">>}

\* sanitizeFileName is about to be called on a display name and on the same
\* name with whitespace before and after it
InitSanitize ==
    \E name \in UNION {[1..n -> NameChars] : n \in 0..MaxNameLen},
       before \in Paddings, after \in Paddings :
        Calling("sanitizeFileName",
                [name |-> name, padded |-> before \o name \o after])

SanitizeFileName ==
    /\ pc = "call"
    /\ applied.fn = "sanitizeFileName"
    /\ Return([name |-> sanitizeFileName(applied.arg.name),
               padded |-> sanitizeFileName(applied.arg.padded)])

\* the command is started with or without a token, a workspace id (option or
\* environment) and --list-workspaces
InitAction ==
    \E apiToken \in {<<>>, <<"p", "k", "_">>}, workspaceId \in {<<>>, W1},
       listWorkspaces \in BOOLEAN :
        Calling("action", [apiToken |-> apiToken, workspaceId |-> workspaceId,
                           listWorkspaces |-> listWorkspaces])

\* The start of the command's action: the checks of the token and of the
\* workspace id, then the listing of the workspaces when it is asked for.
\* The result is the exit code ("none" when the action goes on to crawl),
\* the error reported and whether the workspaces were listed. The requests of
\* the listing (getWorkspaces, then getSpaces for each team) are answered as
\* one: a failure of any of them ends in the same catch.
Action ==
    /\ pc = "call"
    /\ applied.fn = "action"
    /\ pc' = "returned"
    /\ LET options == applied.arg
           Exit(code, error, listed) ==
               [applied EXCEPT !.result = [exit |-> code, error |-> error,
                                           listed |-> listed]]
       IN  IF options.apiToken = <<>>
           THEN applied' = Exit("1", "token", FALSE) /\ UNCHANGED <<faults, trace>>
           ELSE IF options.workspaceId = <<>>
           THEN applied' = Exit("1", "workspace", FALSE) /\ UNCHANGED <<faults, trace>>
           ELSE IF options.listWorkspaces
           THEN \E r \in Outcomes :
                   /\ faults' = faults + Failed(r)
                   /\ trace' = Append(trace, Event("fetch", "getWorkspaces", <<>>, r))
                   /\ applied' = IF r = "ok" THEN Exit("0", "none", TRUE)
                                 ELSE Exit("1", "listing", FALSE)
           ELSE applied' = Exit("none", "none", FALSE) /\ UNCHANGED <<faults, trace>>
    /\ UNCHANGED <<opts, remote, walk, csv, docs, writes, dirs, delivered, outcome, cli>>

InitMarkdown == \E node \in MdNodes : Calling("convertToMarkdown", node)

ConvertToMarkdown ==
    /\ pc = "call"
    /\ applied.fn = "convertToMarkdown"
    /\ Return(convertToMarkdown(applied.arg))

\* ------------------------------------ the documents of a folder or a list

\* what this.request(endpoint) gives: the JSON of a response, or an exception
\* when the response is not ok
Answered(items) == [ok |-> TRUE, items |-> items]
NotOk == [ok |-> FALSE, items |-> <<>>]

\* what a call of the client gives: the requests it made, and its value or
\* its exception
Gave(requests, documents) ==
    [threw |-> FALSE, requests |-> requests, documents |-> documents]
Threw(requests) == [threw |-> TRUE, requests |-> requests, documents |-> <<>>]

\* getDocumentsFromFolder with both endpoints requested, the last answer kept
getDocumentsFromFolder_tryBoth(folderId, answer) ==
    LET doc == <<"folder", folderId, "doc">>
        plural == <<"folder", folderId, "docs">>
    IN  IF answer[plural].ok THEN Gave(<<doc, plural>>, answer[plural].items)
        ELSE IF answer[doc].ok THEN Gave(<<doc, plural>>, answer[doc].items)
        ELSE Gave(<<doc, plural>>, <<>>)

\* getDocumentsFromFolder(folderId): /folder/{id}/doc, after its failure
\* /folder/{id}/docs, after the failure of both { documents: [] }; answer gives
\* the response of each endpoint
getDocumentsFromFolder(folderId, answer) ==
    LET doc == <<"folder", folderId, "doc">>
        plural == <<"folder", folderId, "docs">>
    IN  IF answer[doc].ok THEN Gave(<<doc>>, answer[doc].items)
        ELSE IF answer[plural].ok THEN Gave(<<doc, plural>>, answer[plural].items)
        ELSE Gave(<<doc, plural>>, <<>>)

\* getDocumentsFromList(listId): /list/{id}/doc, after its failure
\* /list/{id}/docs, after the failure of both { documents: [] }
getDocumentsFromList(listId, answer) ==
    LET doc == <<"list", listId, "doc">>
        plural == <<"list", listId, "docs">>
    IN  IF answer[doc].ok THEN Gave(<<doc>>, answer[doc].items)
        ELSE IF answer[plural].ok THEN Gave(<<doc, plural>>, answer[plural].items)
        ELSE Gave(<<doc, plural>>, <<>>)

\* the responses of an endpoint: not ok, or one of three document lists
EndpointAnswers ==
    {NotOk} \cup {Answered(ds) : ds \in {<<>>, <<Listed(D1, <<>>)>>,
                                         <<Listed(D2, <<D3>>)>>}}

\* getDocumentsFromFolder or getDocumentsFromList is about to be called, for
\* every pair of responses of the two endpoints
InitEndpoints ==
    \E of \in {<<"folder", F1>>, <<"list", L1>>},
       singular \in EndpointAnswers, plural \in EndpointAnswers :
        Calling(IF of[1] = "folder" THEN "getDocumentsFromFolder"
                ELSE "getDocumentsFromList",
                [kind |-> of[1], id |-> of[2],
                 answer |-> (<<of[1], of[2], "doc">> :> singular)
                            @@ (<<of[1], of[2], "docs">> :> plural)])

GetDocumentsFrom ==
    /\ pc = "call"
    /\ applied.fn \in {"getDocumentsFromFolder", "getDocumentsFromList"}
    /\ Return(IF applied.fn = "getDocumentsFromFolder"
              THEN getDocumentsFromFolder(applied.arg.id, applied.arg.answer)
              ELSE getDocumentsFromList(applied.arg.id, applied.arg.answer))

\* ---------------------------------------------- the folders of a space

F2 == <<"F", "2">>
F3 == <<"F", "3">>

\* the longest folder listing of the model
MaxListing == 2

\* what getAllFoldersRecursively holds while it runs
FolderWalk(allFolders, processedFolderIds) ==
    [allFolders |-> allFolders, processedFolderIds |-> processedFolderIds]

\* processFolders with the ids of the folders above the current one in place of
\* processedFolderIds: what a subfolder recorded is forgotten on the way back
RECURSIVE processFolders_pathOnly(_, _, _, _)
processFolders_pathOnly(listing, parentId, isSpace, st) ==
    LET answer == IF isSpace THEN listing.space ELSE listing.folder[parentId]
        RECURSIVE each(_, _)
        each(folders, s) ==
            IF folders = <<>> THEN s
            ELSE IF Head(folders) \in s.processedFolderIds
            THEN each(Tail(folders), s)
            ELSE LET below == processFolders_pathOnly(listing, Head(folders), FALSE,
                                FolderWalk(Append(s.allFolders, Head(folders)),
                                           s.processedFolderIds \cup {Head(folders)}))
                 IN  each(Tail(folders),
                          FolderWalk(below.allFolders, s.processedFolderIds))
    IN  IF answer.ok THEN each(answer.items, st) ELSE st

getAllFoldersRecursively_pathOnly(listing) ==
    processFolders_pathOnly(listing, <<>>, TRUE, FolderWalk(<<>>, {})).allFolders

\* processFolders(parentId, isSpace): the folders of the space or the
\* subfolders of a folder are requested; a failed request ends this call (the
\* inner catch returns, the outer one logs); every folder whose id was not
\* processed is recorded and pushed, and its subfolders follow before the next
\* folder of the listing. listing gives the answer of each request, st the
\* allFolders and processedFolderIds of the enclosing call.
RECURSIVE processFolders(_, _, _, _)
processFolders(listing, parentId, isSpace, st) ==
    LET answer == IF isSpace THEN listing.space ELSE listing.folder[parentId]
        RECURSIVE each(_, _)
        each(folders, s) ==
            IF folders = <<>> THEN s
            ELSE IF Head(folders) \in s.processedFolderIds
            THEN each(Tail(folders), s)
            ELSE each(Tail(folders),
                      processFolders(listing, Head(folders), FALSE,
                          FolderWalk(Append(s.allFolders, Head(folders)),
                                     s.processedFolderIds \cup {Head(folders)})))
    IN  IF answer.ok THEN each(answer.items, st) ELSE st

\* getAllFoldersRecursively(spaceId): the folders processFolders has pushed
getAllFoldersRecursively(listing) ==
    processFolders(listing, <<>>, TRUE, FolderWalk(<<>>, {})).allFolders

\* the answers of a folder request: not ok, or up to MaxListing folders
FolderAnswers ==
    {NotOk} \cup {Answered(fs) :
                    fs \in UNION {[1..n -> {F1, F2, F3}] : n \in 0..MaxListing}}

\* getAllFoldersRecursively is about to be called: the space and the folders F1
\* and F2 answer with any listing; F3 lists nothing, F2 alone, or fails
InitFolders ==
    \E space \in FolderAnswers, f1 \in FolderAnswers, f2 \in FolderAnswers,
       f3 \in {NotOk, Answered(<<>>), Answered(<<F2>>)} :
        Calling("getAllFoldersRecursively",
                [space |-> space, folder |-> (F1 :> f1) @@ (F2 :> f2) @@ (F3 :> f3)])

GetAllFoldersRecursively ==
    /\ pc = "call"
    /\ applied.fn = "getAllFoldersRecursively"
    /\ Return(getAllFoldersRecursively(applied.arg))

Init ==
    InitTasks \/ InitDocs \/ InitPages \/ InitBoth \/ InitLists \/ InitMerge \/ InitAll
        \/ InitMarkdown \/ InitEscape \/ InitOrderings \/ InitSanitize
        \/ InitAction \/ InitEndpoints \/ InitFolders \/ InitNames

Next ==
    \/ GetSpaces
    \/ NextSpace
    \/ CrawlSpace
    \/ GetListsInSpace
    \/ GetTasks
    \/ ProcessTask
    \/ GetFolders
    \/ GetLists
    \/ ExportTasksEnd
    \/ ExportLists
    \/ GetDocuments
    \/ ListDocuments
    \/ ViewDocument
    \/ AddDocumentRecursively
    \/ ReturnDocuments
    \/ FetchDocument
    \/ BuildDocumentTree
    \/ ProcessDocumentNode
    \/ ConvertToMarkdown
    \/ EscapeCSV
    \/ BuildDocumentTrees
    \/ SanitizeFileName
    \/ Action
    \/ GetDocumentsFrom
    \/ GetAllFoldersRecursively

Spec == Init /\ [][Next]_vars

\* ================================================================== claims

Done == pc = "done"

\* the task walk has returned to exportTasksAsCSV and nothing has run since
WalkReturned == pc = "exportEnd"

InWalk == pc \in {"getListsInSpace", "spaceList", "spaceTask", "getFolders",
                  "folder", "folderList", "folderTask", "exportEnd"}

Events == {trace[i] : i \in 1..Len(trace)}

\* every tasks the remote holds, with the id of its list
RemoteTasks ==
    UNION {{remote.tasks[l][i] : i \in 1..Len(remote.tasks[l])} : l \in DOMAIN remote.tasks}

TotalTasks == Cardinality(RemoteTasks)

\* onTask was called with the record of task id (whether or not it threw)
Delivered(id) == \E e \in Events : e.e = "onTask" /\ e.arg = id

\* the number of detail fetches issued for task id
DetailFetches(id) ==
    Cardinality({i \in 1..Len(trace) :
                    trace[i].e = "fetch" /\ trace[i].op = "getTask" /\ trace[i].arg = id})

\* no request was answered with anything but a result or HTTP 429, and no file
\* operation failed
OnlyRateLimits == \A e \in Events : e.res \in {"ok", "rate", "none"}

\* the fetches that enumerate lists, folders and tasks were all answered
EnumerationsOk ==
    \A e \in Events :
        e.e = "fetch" /\ e.op \in {"getListsInSpace", "getTasks", "getFolders", "getLists"}
            => e.res = "ok"

\* the pages of the documents whose content crawlSpace fetched
FetchedPages ==
    UNION {{docs.documentsWithContent[i].pages[j]
                : j \in 1..Len(docs.documentsWithContent[i].pages)}
            : i \in 1..Len(docs.documentsWithContent)}

\* how many files savePage has written for page id
PageWrites(id) ==
    Cardinality({i \in 1..Len(writes) : writes[i].kind = "page" /\ writes[i].id = id})

\* C1: when crawlSpace has completed without error, every page of every
\* fetched document has been written by savePage at least once, the pages of
\* documents attached as children of another document included.
C1_EveryPageWritten ==
    (Done /\ outcome = "resolved") => \A p \in FetchedPages : PageWrites(p.id) >= 1

RECURSIVE Occurrences(_, _, _)
\* how often id occurs in the forest below the nodes (a sequence of ids)
Occurrences(id, nodes, children) ==
    IF nodes = <<>> THEN 0
    ELSE (IF Head(nodes) = id THEN 1 ELSE 0)
         + Occurrences(id, children[Head(nodes)], children)
         + Occurrences(id, Tail(nodes), children)

\* C2: for documents with pairwise distinct ids, self-references and cycles
\* among the parent references included, every input id is reachable from the
\* roots returned by buildDocumentTree exactly once.
C2_EveryIdOnce ==
    docs.built =>
        \A i \in 1..Len(docs.documentsWithContent) :
            Occurrences(docs.documentsWithContent[i].id, docs.rootNodes,
                        docs.children) = 1

\* C3: in saveDocument no page is written to more than one slot, for every
\* page collection with pairwise distinct ids, a page id may equal the id of
\* the document.
C3_NoPageTwice == \A p \in FetchedPages : PageWrites(p.id) <= 1

\* every call of writeTask so far returned normally
NoWriteFailed == \A e \in Events : e.e = "onTask" => e.op = "ok"

\* C4: a header rewrite replaces the first line only and adds or removes no
\* line: after N records the file is one header line followed by N row lines
\* (split at the line feeds that is N + 1 lines and the empty rest after the
\* last line feed).
C4_HeaderThenRows ==
    (InWalk /\ NoWriteFailed /\ csv.headerWritten) =>
        Len(Split(csv.file, "\n")) = csv.taskCount + 2

\* C5: a failure while one task is processed (its detail fetch or its onTask
\* call) skips only that task: when the lists, folders and tasks were all
\* enumerated, every task of every list has been passed to onTask.
C5_FailureSkipsOnlyThatTask ==
    (WalkReturned /\ EnumerationsOk) => \A t \in RemoteTasks : Delivered(IdOf(t))

\* C6: when requests were answered only with results or HTTP 429 and no file
\* operation failed, crawlSpace does not reject.
C6_RateLimitNeverRejects ==
    (opts.workspaceId # <<>> /\ OnlyRateLimits) => outcome # "rejected"

\* C7: a task walk in which requests are answered with HTTP 429 (and nothing
\* else fails) delivers as many tasks to the writer as the walk without any
\* rate limit, which delivers every task of the space.
C7_SameCountUnderRateLimit ==
    (WalkReturned /\ OnlyRateLimits) => csv.taskCount = TotalTasks

\* the walk without any failure writes every task of the space
NoFaultCount ==
    (WalkReturned /\ faults = 0) => csv.taskCount = TotalTasks

\* C8: in the task walk every fetch answered with HTTP 429 is followed by a
\* progress log before the next fetch.
C8_RateLimitLogged ==
    InWalk =>
        \A i \in 1..Len(trace) :
            (trace[i].e = "fetch" /\ trace[i].res = "rate")
                => (i < Len(trace) /\ trace[i + 1].e = "rateLimitLog")

\* the tasks of the lists that lie in folders
FolderTasks ==
    UNION {UNION {{remote.tasks[IdOf(remote.folderLists[f][k])][i]
                      : i \in 1..Len(remote.tasks[IdOf(remote.folderLists[f][k])])}
                  : k \in 1..Len(remote.folderLists[f])}
           : f \in DOMAIN remote.folderLists}

\* C9: when the enumeration of the lists directly under the space fails and
\* nothing else does, the walk goes on as if there were no such list: the
\* tasks of the lists in folders are delivered.
C9_SpaceListsFailureIsNoLists ==
    (WalkReturned /\ faults = 1 /\ trace[1].op = "getListsInSpace" /\ trace[1].res # "ok")
        => \A t \in FolderTasks : Delivered(IdOf(t))

ConsideredComplete == {K_subtasks, K_description, K_markdown_description}

\* the field is missing, null, an empty string or an empty array
MissingOrEmpty(task, key) ==
    \/ ~HasKey(task, key)
    \/ Get(task, key).t = "null"
    \/ (Get(task, key).t = "str" /\ Get(task, key).s = <<>>)
    \/ (Get(task, key).t = "arr" /\ Get(task, key).items = <<>>)

\* the field is missing, null or an empty string
MissingOrBlank(task, key) ==
    \/ ~HasKey(task, key)
    \/ Get(task, key).t = "null"
    \/ (Get(task, key).t = "str" /\ Get(task, key).s = <<>>)

\* C10 as stated: for every task the walk has processed, exactly one detail
\* fetch when one of subtasks, description, markdown_description is missing or
\* empty, none when all three are present.
C10_DetailFetchWhenMissingOrEmpty ==
    \A t \in RemoteTasks :
        Delivered(IdOf(t)) =>
            DetailFetches(IdOf(t)) =
                (IF \E k \in ConsideredComplete : MissingOrEmpty(t, k) THEN 1 ELSE 0)

\* C10 (amended): for every task returned by a bulk fetch, the walk issues
\* exactly one detail fetch when it processes the task and one of subtasks,
\* description, markdown_description is missing, null or an empty string, and
\* none otherwise; an empty subtasks array counts as present.
C10_DetailFetchWhenFalsy ==
    \A t \in RemoteTasks :
        DetailFetches(IdOf(t)) =
            (IF Delivered(IdOf(t)) /\ \E k \in ConsideredComplete : MissingOrBlank(t, k)
             THEN 1 ELSE 0)

\* a task with an empty subtasks array went to onTask without a detail fetch,
\* and a task without a description after exactly one
C10_Witness ==
    /\ WalkReturned
    /\ \E t \in RemoteTasks :
        /\ Get(t, K_subtasks) = JArr(<<>>)
        /\ Delivered(IdOf(t))
        /\ DetailFetches(IdOf(t)) = 0
    /\ \E t \in RemoteTasks :
        /\ ~HasKey(t, K_description)
        /\ Delivered(IdOf(t))
        /\ DetailFetches(IdOf(t)) = 1

\* the calls of onTask so far, in order; the i-th one was given delivered[i]
OnTaskEvents == LET IsOnTask(e) == e.e = "onTask" IN SelectSeq(trace, IsOnTask)

\* the record of task id as the bulk endpoint returns it
BulkRecord(id) == CHOOSE t \in RemoteTasks : IdOf(t) = id

\* the tasks of the lists whose bulk fetch was answered
Discovered ==
    {t \in RemoteTasks :
        \E l \in DOMAIN remote.tasks :
            /\ \E i \in 1..Len(remote.tasks[l]) : remote.tasks[l][i] = t
            /\ \E e \in Events : e.e = "fetch" /\ e.op = "getTasks" /\ e.arg = l /\ e.res = "ok"}

\* the detail fetch of task id was issued and failed
DetailFetchFailed(id) ==
    \E e \in Events : e.e = "fetch" /\ e.op = "getTask" /\ e.arg = id /\ e.res # "ok"

Pieces(text, seps, lo, hi) ==
    LET inside == {i \in seps : lo <= i /\ i <= hi}
        n == Cardinality(inside)
        sep(k) == CHOOSE i \in inside : Cardinality({j \in inside : j < i}) = k - 1
    IN  [k \in 1..(n + 1) |->
            [lo |-> IF k = 1 THEN lo ELSE sep(k - 1) + 1,
             hi |-> IF k = n + 1 THEN hi ELSE sep(k) - 1]]

RECURSIVE Undouble(_)
\* a doubled quote read as one quote
Undouble(s) ==
    IF s = <<>> THEN <<>>
    ELSE IF Len(s) >= 2 /\ s[1] = "\"" /\ s[2] = "\""
         THEN <<"\"">> \o Undouble(Tail(Tail(s)))
    ELSE <<Head(s)>> \o Undouble(Tail(s))

\* the text of a field: without its enclosing quotes when it has them
Unquote(f) ==
    IF Len(f) >= 2 /\ f[1] = "\"" /\ f[Len(f)] = "\""
    THEN Undouble(SubSeq(f, 2, Len(f) - 1)) ELSE f

\* A CSV reader: a position is inside quotes when an odd number of quotes
\* precedes it; records end at the line feeds and fields at the commas outside
\* quotes. The result is the sequence of records, each the sequence of its
\* fields' texts.
ParseCSV(text) ==
    LET quoted(i) == Cardinality({k \in 1..(i - 1) : text[k] = "\""}) % 2 = 1
        ends(c) == {i \in 1..Len(text) : text[i] = c /\ ~quoted(i)}
        records == Pieces(text, ends("\n"), 1, Len(text))
        fields(r) == Pieces(text, ends(","), r.lo, r.hi)
    IN  [i \in 1..Len(records) |->
            [j \in 1..Len(fields(records[i])) |->
                Unquote(SubSeq(text, fields(records[i])[j].lo,
                               fields(records[i])[j].hi))]]

RECURSIVE Leaves(_, _)
\* the leaves of a record: every dotted path that ends at a value that is not
\* a mapping, with that value
Leaves(obj, prefix) ==
    UNION {LET path == IF prefix = <<>> THEN obj.kv[i].k
                       ELSE prefix \o <<".">> \o obj.kv[i].k
           IN  IF obj.kv[i].v.t = "obj" THEN Leaves(obj.kv[i].v, path)
               ELSE {[path |-> path, value |-> obj.kv[i].v]}
           : i \in 1..Len(obj.kv)}

Paths(obj) == {l.path : l \in Leaves(obj, <<>>)}

\* the record holds a value other than null at the path
HasValue(obj, path) == \E l \in Leaves(obj, <<>>) : l.path = path /\ l.value.t # "null"

\* task_lists.csv was written from the lists in csv.allLists
ListsExported == csv.allLists # <<>>

\* the position of a field name in the header
ColumnOf(header, name) == CHOOSE j \in 1..Len(header) : header[j] = name

\* C12: objectsToCSV of N records reads back as N + 1 records, the header and
\* one row per input record in input order (row i carries the id of record i);
\* every row has as many fields as the header, and a field is empty where the
\* record has no value or null at the header's path. For no record at all the
\* result is the single empty line.
C12_HeaderAndRows ==
    /\ Len(ParseCSV(objectsToCSV(<<>>))) = 1
    /\ ListsExported =>
        LET rows == ParseCSV(csv.listsFile)
            N == Len(csv.allLists)
            header == rows[1]
        IN  /\ Len(rows) = N + 1
            /\ \A i \in 1..N :
                /\ Len(rows[i + 1]) = Len(header)
                /\ rows[i + 1][ColumnOf(header, K_id)] = IdOf(csv.allLists[i])
                /\ \A j \in 1..Len(header) :
                    ~HasValue(csv.allLists[i], header[j]) => rows[i + 1][j] = <<>>

\* three lists were exported, among them one with a nested status holding a
\* comma and a null, and one whose name holds a quote and a line feed
C12_Witness ==
    /\ Len(csv.allLists) = 3
    /\ \E i \in 1..3 : HasValue(csv.allLists[i], K_status \o <<".">> \o K_status)
    /\ \E i \in 1..3 : Contains(NameOf(csv.allLists[i]), "\n")
    /\ \E i, j \in 1..3 : Paths(csv.allLists[i]) # Paths(csv.allLists[j])

\* C13: the header of objectsToCSV, read back, is strictly ascending in code
\* unit order (sorted and free of duplicates) and holds exactly the dotted
\* paths of the leaves of all input records.
C13_HeaderIsSortedUnion ==
    ListsExported =>
        LET header == ParseCSV(csv.listsFile)[1]
        IN  /\ \A j \in 1..(Len(header) - 1) : StrLess(header[j], header[j + 1])
            /\ {header[j] : j \in 1..Len(header)}
                 = UNION {Paths(csv.allLists[i]) : i \in 1..Len(csv.allLists)}

\* lists were exported of which one has a nested field and another one has
\* the same path as a top-level key
C13_Witness ==
    /\ ListsExported
    /\ \E i, j \in 1..Len(csv.allLists) :
        /\ i # j
        /\ K_status \o <<".">> \o K_color \in Paths(csv.allLists[i])
        /\ HasKey(csv.allLists[i], K_status)
        /\ HasKey(csv.allLists[j], K_status \o <<".">> \o K_color)

\* the number of fields of one line of a CSV file
FieldCount(line) ==
    LET quoted(i) == Cardinality({k \in 1..(i - 1) : line[k] = "\""}) % 2 = 1
    IN  Cardinality({i \in 1..Len(line) : line[i] = "," /\ ~quoted(i)}) + 1

\* the lines of tasks.csv: the header, the rows, and the empty rest after the
\* last line feed (no value of a task holds a line feed)
FileLines(c) == Split(c.file, "\n")

\* a step in which writeTask appended a row
RowAppended == csv'.taskCount = csv.taskCount + 1

\* the appended row has as many fields as the schema after the merge, and no
\* line after the header was changed
AppendsAtSchemaWidth ==
    RowAppended =>
        LET old == FileLines(csv)
            new == FileLines(csv')
        IN  /\ FieldCount(new[Len(new) - 1]) = Cardinality(csv'.allFieldNames)
            /\ Len(new) > Len(old)
            /\ \A i \in 2..(Len(old) - 1) : new[i] = old[i]

\* no row is wider than the schema, and the header names the whole schema when
\* no write failed
RowsWithinSchema ==
    csv.headerWritten =>
        LET lines == FileLines(csv)
        IN  /\ \A i \in 2..Len(lines) :
                lines[i] # <<>> => FieldCount(lines[i]) <= Cardinality(csv.allFieldNames)
            /\ NoWriteFailed /\ csv.file # <<>> =>
                FieldCount(lines[1]) = Cardinality(csv.allFieldNames)

Range(seq) == {seq[i] : i \in 1..Len(seq)}

\* the documents buildDocumentTree was called with have pairwise distinct ids
DistinctIds(documents) ==
    \A i, j \in 1..Len(documents) : documents[i].id = documents[j].id => i = j

\* C15: for documents with pairwise distinct ids, the node of C is among the
\* children of the node of P exactly when C's parent reference is P's id (P
\* being a document of the collection), and a node whose parent reference is
\* null or names no document of the collection is a root.
C15_ChildIffParentPresent ==
    (docs.built /\ DistinctIds(docs.documentsWithContent)) =>
        LET documents == docs.documentsWithContent
            ids == {documents[i].id : i \in 1..Len(documents)}
        IN  /\ DOMAIN docs.children = ids
            /\ \A c \in Range(documents), p \in Range(documents) :
                (c.id \in Range(docs.children[p.id])) <=> (c.parent = p.id)
            /\ \A c \in Range(documents) :
                (c.parent = <<>> \/ c.parent \notin ids) => c.id \in Range(docs.rootNodes)

\* a tree was built from a document without parent, a child of it, and a
\* document whose parent is outside the collection
C15_Witness ==
    /\ docs.built
    /\ Len(docs.documentsWithContent) = 3
    /\ \E c, p, x \in Range(docs.documentsWithContent) :
        /\ p.parent = <<>> /\ p.id \in Range(docs.rootNodes)
        /\ c.parent = p.id /\ c.id \in Range(docs.children[p.id])
        /\ x.parent = DX /\ x.id \in Range(docs.rootNodes)

\* the documents whose pages saveDocument was given: the root nodes, saved in
\* the directory of the space
RootDocuments ==
    {d \in Range(docs.documentsWithContent) : d.id \in Range(docs.rootNodes)}

\* a page that is neither a root page of document d nor a sub-page of one
IsOrphanPage(d, p) ==
    /\ p.parent_id # <<>>
    /\ p.parent_id # d.id
    /\ ~\E r \in Range(d.pages) :
            (r.parent_id = <<>> \/ r.parent_id = d.id) /\ p.parent_id = r.id

\* the directories in which a page with this id was written
DirsOfPage(id) ==
    {writes[i].dir : i \in {j \in 1..Len(writes) :
                              writes[j].kind = "page" /\ writes[j].id = id}}

\* C16: when a document's pages were saved, a page that is neither a root page
\* nor a sub-page of a root page is written into the directory named after its
\* parent page (inside the document's directory) and not into the document's
\* directory when that parent is a page of the collection, and into the
\* document's directory otherwise. (Names of the model need no sanitizing.)
C16_OrphanUnderParentSlot ==
    (Done /\ outcome = "resolved") =>
        \A d \in RootDocuments :
            LET docPath == Append(SpacePath, d.name)
            IN  \A p \in Range(d.pages) :
                    IsOrphanPage(d, p) =>
                        IF \E q \in Range(d.pages) : q.id = p.parent_id
                        THEN \E q \in Range(d.pages) :
                                /\ q.id = p.parent_id
                                /\ DirsOfPage(p.id) = {Append(docPath, q.name)}
                        ELSE DirsOfPage(p.id) = {docPath}

\* the pages p1 (no parent), p2 (parent p1), p3 (parent p2) of a document were
\* saved
C16_Witness ==
    /\ Done /\ outcome = "resolved"
    /\ \E d \in RootDocuments :
        /\ Len(d.pages) = 3
        /\ d.pages[1].parent_id = <<>>
        /\ d.pages[2].parent_id = d.pages[1].id
        /\ d.pages[3].parent_id = d.pages[2].id
        /\ IsOrphanPage(d, d.pages[3])
        /\ DirsOfPage(d.pages[3].id) # {}

\* an orphan whose parent is no page of the collection was saved
C16_WitnessNoParent ==
    /\ Done /\ outcome = "resolved"
    /\ \E d \in RootDocuments : \E p \in Range(d.pages) :
        /\ IsOrphanPage(d, p)
        /\ p.parent_id = PX
        /\ DirsOfPage(p.id) # {}

\* C17: the documents getDocuments returns have pairwise distinct ids, along
\* whatever paths an id was reached and whatever requests failed.
C17_OneDocumentPerId ==
    docs.returned =>
        \A i, j \in 1..Len(docs.documents) :
            docs.documents[i].id = docs.documents[j].id => i = j

\* getDocuments returned after it had collected the same id twice and after a
\* request of it had failed
C17_Witness ==
    /\ docs.returned
    /\ \E i, j \in 1..Len(docs.allDocuments) :
        i # j /\ docs.allDocuments[i].id = docs.allDocuments[j].id
    /\ \E e \in Events : e.e = "docFetch" /\ e.res # "ok"

\* the visits of documents that getDocuments' enumeration holds, in order
Discoveries ==
    LET IsVisit(step) == step.kind \in {"view", "add"}
    IN  SelectSeq(DocumentPlan(remote), IsVisit)

\* the version of the document that a visit finds: a visit through a folder's
\* doc view finds the document with the folder's id
VersionAt(step) ==
    IF step.kind = "view" THEN [Stored(step.id) EXCEPT !.folderId = step.folder]
    ELSE Stored(step.id)

\* the version found by the last visit of a document id
LaterDiscovered(id) ==
    VersionAt(Discoveries[CHOOSE k \in 1..Len(Discoveries) :
                            /\ Stored(Discoveries[k].id).id = id
                            /\ \A h \in (k + 1)..Len(Discoveries) :
                                  Stored(Discoveries[h].id).id # id])

\* C18: when no request of getDocuments failed, the version of a document in
\* the returned set is the one found by the last visit of its id.
C18_LaterVersionKept ==
    (docs.returned /\ \A e \in Events : e.e = "docFetch" => e.res = "ok") =>
        \A i \in 1..Len(docs.documents) :
            docs.documents[i] = LaterDiscovered(docs.documents[i].id)

\* C20: crawlSpace called with an empty workspace id while document export is
\* enabled is rejected before any directory is created, any fetch is issued or
\* any file is written; the same call with document export disabled passes the
\* entry check (the space directory is created) and is not rejected unless a
\* later request or file operation failed.
C20_MissingWorkspaceFailsFirst ==
    (opts.workspaceId = <<>> /\ pc # "start") =>
        IF opts.includeDocs
        THEN /\ outcome = "rejected"
             /\ pc = "done"
             /\ dirs = {}
             /\ trace = <<>>
             /\ writes = <<>>
             /\ csv = NewCsv
        ELSE /\ SpacePath \in dirs
             /\ outcome = "rejected" =>
                    \E e \in Events : e.res \notin {"ok", "rate", "none"}

C20_Witness ==
    /\ opts.workspaceId = <<>>
    /\ opts.includeDocs
    /\ pc = "done"
    /\ outcome = "rejected"

C20_WitnessDocsDisabled ==
    /\ opts.workspaceId = <<>>
    /\ ~opts.includeDocs
    /\ opts.includeTasks
    /\ pc = "done"
    /\ outcome = "resolved"

\* the ids of the spaces getSpaces returned, in enumeration order
SpaceIds == [i \in 1..Len(cli.spaces) |-> cli.spaces[i].id]

\* the command reached "Crawl complete"
CrawlComplete == cli.mode = "all" /\ pc = "exit" /\ ~cli.fatal

\* C19: in all-spaces mode crawlSpace is invoked exactly once for every space
\* getSpaces returned, in enumeration order, whether or not it failed for an
\* earlier space: at every moment the calls made are the first spaces of the
\* enumeration, each once, every call before the last has settled, and when
\* the loop is over every space has been called.
C19_EverySpaceCrawledOnce ==
    cli.mode = "all" =>
        /\ cli.calls = SubSeq(SpaceIds, 1, cli.si)
        /\ Len(cli.results) = IF pc = "exit" THEN cli.si
                              ELSE IF cli.si = 0 THEN 0 ELSE cli.si - 1
        /\ CrawlComplete => cli.calls = SpaceIds

C19_Witness ==
    /\ CrawlComplete
    /\ Len(cli.spaces) = 3
    /\ cli.results[1] = "rejected"
    /\ cli.results[2] = "rejected"
    /\ cli.results[3] = "resolved"
    /\ cli.calls = <<S1, S2, S3>>


\* the schema right after the fields of the j-th delivered record were merged
SchemaAt(j) == UNION {getFieldNames(delivered[i]) : i \in 1..j}

\* the calls of onTask that returned normally, as indices into delivered, in
\* order of discovery
PersistedCalls ==
    LET calls == OnTaskEvents
        ok == {j \in 1..Len(calls) : calls[j].op = "ok"}
    IN  [k \in 1..Cardinality(ok) |->
            CHOOSE j \in ok : Cardinality({i \in ok : i < j}) = k - 1]

\* the rows of tasks.csv: its lines after the header, empty lines left out
FileRows ==
    LET lines == FileLines(csv)
        NonEmpty(l) == l # <<>>
    IN  IF Len(lines) <= 1 THEN <<>> ELSE SelectSeq(Tail(lines), NonEmpty)

ParentNode(id) ==
    IF \E p \in DOMAIN docs.children : id \in Range(docs.children[p])
    THEN CHOOSE p \in DOMAIN docs.children : id \in Range(docs.children[p])
    ELSE <<>>

RECURSIVE DocumentDir(_, _)
\* the directory the forest assigns to document id: the directory of its parent
\* joined with its sanitized name, the space directory taking the place of the
\* parent of a root; <<>> when no root is met within n steps up
DocumentDir(id, n) ==
    LET name == sanitizeFileName(NodeOf(docs.documentsWithContent, id).name)
    IN  IF id \in Range(docs.rootNodes) THEN JoinPath(SpacePath, name)
        ELSE IF n = 0 \/ ParentNode(id) = <<>> THEN <<>>
        ELSE LET above == DocumentDir(ParentNode(id), n - 1)
             IN  IF above = <<>> THEN <<>> ELSE JoinPath(above, name)

\* C22: when crawlSpace resolved, every document that buildDocumentTree made a
\* child of P was saved inside the directory created for P (the directory of
\* P's parent joined with P's sanitized name), and every root was saved
\* directly under the space directory.
C22_ForestAsDirectories ==
    (Done /\ outcome = "resolved" /\ docs.built
          /\ DistinctIds(docs.documentsWithContent)) =>
        \A d \in Range(docs.documentsWithContent) :
            LET dir == DocumentDir(d.id, Len(docs.documentsWithContent))
            IN  dir # <<>> /\ dir \in dirs

\* convertToMarkdown was called and returned or threw
Converted == applied.fn = "convertToMarkdown" /\ pc = "returned"

\* C23: convertToMarkdown returns a string and never throws, whatever the shape
\* of the node: an unrecognized type, a heading or list item whose content holds
\* null or a string, a heading whose level is no positive integer.
C23_ConvertNeverThrows == Converted => ~applied.result.threw

\* escapeCSV was called on its own and returned
Escaped == applied.fn = "escapeCSV" /\ pc = "returned"

\* C24: escapeCSV returns "" for null and undefined; for a value whose text
\* holds a comma, a double quote, a line feed or a carriage return it returns
\* the text between double quotes with every double quote inside doubled (the
\* result is longer by two and by the number of quotes, and reading doubled
\* quotes as one gives the text back); any other text is returned unchanged.
\* a,b gives "a,b" and He said "hi" gives "He said ""hi""".
C24_QuotedIffSpecial ==
    Escaped =>
        LET value == applied.arg
            r == applied.result
        IN  IF value.t \in {"null", "undefined"} THEN r = <<>>
            ELSE LET text == IF value.t = "num" THEN DecimalString(value.n) ELSE value.s
                     special == \E i \in 1..Len(text) : text[i] \in {",", "\"", "\n", "\r"}
                     quotes == Cardinality({i \in 1..Len(text) : text[i] = "\""})
                 IN  /\ IF special
                        THEN /\ Len(r) = Len(text) + quotes + 2
                             /\ r[1] = "\"" /\ r[Len(r)] = "\""
                             /\ Undouble(SubSeq(r, 2, Len(r) - 1)) = text
                        ELSE r = text
                     /\ text = <<"a", ",", "a">> => r = <<"\"", "a", ",", "a", "\"">>
                     /\ text = HeSaidHi =>
                            r = <<"\"", "H", "e", " ", "s", "a", "i", "d", " ",
                                  "\"", "\"", "h", "i", "\"", "\"", "\"">>

\* He said "hi" was escaped
C24_Witness ==
    /\ Escaped
    /\ applied.arg = MStr(HeSaidHi)
    /\ Len(applied.result) = Len(HeSaidHi) + 4

\* the schema does not shrink in this step (the call of crawlSpace for the next
\* space starts another export session)
SchemaGrows == pc' # "start" => csv.allFieldNames \subseteq csv'.allFieldNames

\* writeTask was called and its last call returned normally
LastRecordWritten ==
    OnTaskEvents # <<>> /\ OnTaskEvents[Len(OnTaskEvents)].op = "ok"

\* after a record was processed, the header line in the file names, in sorted
\* order, the fields of every record given to writeTask so far
HeaderIsSchema ==
    (InWalk /\ LastRecordWritten) =>
        /\ csv.allFieldNames = SchemaAt(Len(delivered))
        /\ FileLines(csv)[1] = HeaderLine(SchemaAt(Len(delivered)))

\* C25: across one streaming export the schema only grows (after every record
\* it is a superset of the schema before), and the header line persisted in
\* the file equals the sorted schema of all records observed so far.
C25_HeaderIsGrowingSchema == [][SchemaGrows]_vars /\ []HeaderIsSchema

\* buildDocumentTree was called on two orderings of a collection
TreesBuilt == applied.fn = "buildDocumentTree" /\ pc = "returned"

\* the parent/child pairs of a forest
ParentChildPairs(tree) ==
    UNION {{<<p, c>> : c \in Range(tree.children[p])} : p \in DOMAIN tree.children}

\* C26: for two orderings of the same documents with pairwise distinct ids,
\* buildDocumentTree yields the same set of parent/child pairs and the same set
\* of roots; only the order of siblings and of roots may differ.
C26_OrderIndependentForest ==
    TreesBuilt =>
        LET a == applied.result.documents
            b == applied.result.reordered
        IN  /\ ParentChildPairs(a) = ParentChildPairs(b)
            /\ Range(a.rootNodes) = Range(b.rootNodes)

\* the two orderings gave the roots in different orders, and a child was
\* listed before its parent in one of them
C26_Witness ==
    /\ TreesBuilt
    /\ applied.result.documents.rootNodes # applied.result.reordered.rootNodes
    /\ Len(applied.result.documents.rootNodes) = 2
    /\ \E i, j \in 1..3 :
        /\ i < j
        /\ applied.arg.reordered[i].parent = applied.arg.reordered[j].id
        /\ <<applied.arg.reordered[j].id, applied.arg.reordered[i].id>>
                \in ParentChildPairs(applied.result.reordered)

\* sanitizeFileName was called on a name and on its padded twin
Sanitized == applied.fn = "sanitizeFileName" /\ pc = "returned"

\* a file name without illegal character, whitespace or adjacent underscores
CleanName(s) ==
    /\ \A i \in 1..Len(s) : s[i] \notin Illegal \cup Whitespace
    /\ \A i \in 1..(Len(s) - 1) : ~(s[i] = "_" /\ s[i + 1] = "_")

\* C27: two display names that differ only in leading or trailing whitespace
\* sanitize to the same name, and the result holds no illegal character, no
\* whitespace and no two adjacent underscores.
C27_TrimmedAndClean ==
    Sanitized =>
        /\ applied.result.name = applied.result.padded
        /\ CleanName(applied.result.name)
        /\ CleanName(applied.result.padded)

\* the command's action ran up to its exit or up to the crawl
ActionRan == applied.fn = "action" /\ pc = "returned"

\* C28: with a token and --list-workspaces but no workspace id, the command
\* lists the workspaces and exits successfully (when its requests are
\* answered); a missing workspace id is an error only without --list-workspaces.
C28_ListWorkspacesNeedsNoId ==
    ActionRan =>
        /\ (/\ applied.arg.apiToken # <<>>
            /\ applied.arg.listWorkspaces
            /\ applied.arg.workspaceId = <<>>
            /\ OnlyRateLimits /\ faults = 0)
                => applied.result.listed /\ applied.result.exit = "0"
        /\ applied.result.error = "workspace" => ~applied.arg.listWorkspaces

\* the detail fetch of document id was issued
DocumentFetched(id) ==
    \E e \in Events : e.e = "fetch" /\ e.op = "view" /\ e.arg = id

\* C29: when crawlSpace has ended and no file operation failed, a failed detail
\* fetch of one document has skipped that document only: the detail fetch of
\* every document getDocuments returned was issued, and every document that was
\* fetched and has no parent has its directory under the space directory.
C29_FailedDocumentSkipped ==
    (Done /\ docs.returned /\ ~\E e \in Events : e.res = "mkdir") =>
        /\ \A d \in Range(docs.documents) : DocumentFetched(d.id)
        /\ \A d \in Range(docs.documentsWithContent) :
            d.parent = <<>> =>
                JoinPath(SpacePath, sanitizeFileName(d.name)) \in dirs

\* the j-th record brought fields the schema did not hold
GrewSchema(j) ==
    getFieldNames(delivered[j]) \ (IF j = 1 THEN {} ELSE SchemaAt(j - 1)) # {}

\* the calls of onTask that grew the schema, whose header write went through
\* and whose row append was rejected, as indices into delivered
Interrupted ==
    {j \in 1..Len(OnTaskEvents) : OnTaskEvents[j].res = "append" /\ GrewSchema(j)}

\* C30: the header rewrite and the row append of one streaming step that
\* grows the schema are two writes. When the step ends between them, the file
\* holds the header grown by the record's fields while no row of the file
\* holds the record, and it stays so through every later step for as long as
\* the file has a header.
C30_HeaderWithoutRow ==
    \A j \in Interrupted :
        LET records == ParseCSV(csv.file)
        IN  /\ \A k \in 2..Len(records) : IdOf(delivered[j]) \notin Range(records[k])
            /\ csv.file # <<>> => getFieldNames(delivered[j]) \subseteq Range(records[1])

\* the second record grew the schema and its append was rejected; a later
\* record was written, and the walk returned
C30_Witness ==
    /\ WalkReturned
    /\ 2 \in Interrupted
    /\ Len(OnTaskEvents) = 3
    /\ OnTaskEvents[3].op = "ok"
    /\ Len(FileRows) = 2

\* a request or a file write failed while the tasks were exported
TaskExportFailure(i) ==
    /\ trace[i].res \notin {"ok", "none"}
    /\ \E j \in (i + 1)..Len(trace) : trace[j].e = "exported" /\ trace[j].op = "tasks"

\* C31: exportTasksAsCSV never propagates a failure: while the tasks are
\* exported crawlSpace is not rejected, and when crawlSpace called with tasks
\* enabled has ended, the task-list export has run and, with documents enabled,
\* getDocuments was called, whatever failed during the task export.
C31_TaskExportNeverRejects ==
    /\ (InWalk \/ pc = "exportLists") => outcome = "running"
    /\ (Done /\ opts.includeTasks /\ SpacePath \in dirs) =>
        /\ \E e \in Events : e.e = "exported" /\ e.op = "lists"
        /\ opts.includeDocs =>
            \E e \in Events : e.e = "call" /\ e.op = "getDocuments"

\* tasks and documents were exported, and during the task export a request
\* failed and a file write failed
C31_Witness ==
    /\ Done
    /\ opts.includeTasks /\ opts.includeDocs
    /\ \E i \in 1..Len(trace) : TaskExportFailure(i) /\ trace[i].e = "fetch"
    /\ \E i \in 1..Len(trace) : TaskExportFailure(i) /\ trace[i].e = "onTask"
    /\ \E e \in Events : e.e = "call" /\ e.op = "getDocuments"

\* the documents a folder or a list of the space names, with their children
ListedDocuments ==
    LET p == remote.docPaths
    IN  UNION ({Range(p.folderDocs[f]) : f \in DOMAIN p.folderDocs}
               \cup {Range(p.listDocs[l]) : l \in DOMAIN p.listDocs})

\* the places of the trace where addDocumentRecursively fetched document id
AddAttempts(id) ==
    {i \in 1..Len(trace) : /\ trace[i].e = "docFetch"
                           /\ trace[i].op = "addDocumentRecursively"
                           /\ trace[i].arg = id}

\* C32: when getDocuments has returned, (a) every child listed under a document
\* whose fetch by addDocumentRecursively failed was itself fetched by
\* addDocumentRecursively, unless its id had been processed before, and (b) no
\* document id was fetched by addDocumentRecursively more than once.
C32_ChildrenOfFailedParent ==
    docs.returned =>
        /\ \A d \in ListedDocuments :
              (\E i \in AddAttempts(d.id) : trace[i].res # "ok") =>
                  \A k \in 1..Len(d.children) :
                      /\ d.children[k] \in docs.processedDocIds
                      /\ \/ AddAttempts(d.children[k]) # {}
                         \/ \E e \in Events : /\ e.e = "docFetch"
                                              /\ e.op = "getDocument"
                                              /\ e.res = "ok"
                                              /\ Stored(e.arg).id = d.children[k]
        /\ \A id \in {D1, D2, D3} : Cardinality(AddAttempts(id)) <= 1

\* getDocuments returned a child without its parent: the fetch of the parent
\* failed, the child is named by a list as well and is in the result once
C32_Witness ==
    /\ docs.returned
    /\ \E d \in ListedDocuments :
        /\ \E i \in AddAttempts(d.id) : trace[i].res # "ok"
        /\ \A j \in 1..Len(docs.documents) : docs.documents[j].id # d.id
        /\ \E k \in 1..Len(d.children) :
            /\ \E j \in 1..Len(docs.documents) : docs.documents[j].id = d.children[k]
            /\ \E i \in AddAttempts(d.children[k]) : trace[i].res = "ok"
            /\ \E e \in ListedDocuments : e.id = d.children[k] /\ e # d

\* getDocumentsFromFolder or getDocumentsFromList has returned or thrown
EndpointsTried ==
    /\ pc = "returned"
    /\ applied.fn \in {"getDocumentsFromFolder", "getDocumentsFromList"}

\* C33: getDocumentsFromFolder and getDocumentsFromList request the singular
\* endpoint first and the plural one only after the singular one failed; they
\* return the first successful response, and an empty document list, not an
\* exception, when both failed.
C33_SingularThenPlural ==
    EndpointsTried =>
        LET doc == <<applied.arg.kind, applied.arg.id, "doc">>
            plural == <<applied.arg.kind, applied.arg.id, "docs">>
            answer == applied.arg.answer
            result == applied.result
        IN  /\ ~result.threw
            /\ result.requests[1] = doc
            /\ result.requests = IF answer[doc].ok THEN <<doc>> ELSE <<doc, plural>>
            /\ answer[doc].ok => result.documents = answer[doc].items
            /\ ~answer[doc].ok /\ answer[plural].ok =>
                  result.documents = answer[plural].items
            /\ ~answer[doc].ok /\ ~answer[plural].ok => result.documents = <<>>

\* the singular endpoint answered, and the plural one would have answered
\* with other documents
C33_Witness ==
    /\ EndpointsTried
    /\ applied.fn = "getDocumentsFromFolder"
    /\ LET doc == <<applied.arg.kind, applied.arg.id, "doc">>
           plural == <<applied.arg.kind, applied.arg.id, "docs">>
       IN  /\ applied.arg.answer[doc].ok /\ applied.arg.answer[plural].ok
           /\ applied.arg.answer[doc].items # applied.arg.answer[plural].items
           /\ applied.result.documents # <<>>

\* getAllFoldersRecursively has returned
FoldersListed == pc = "returned" /\ applied.fn = "getAllFoldersRecursively"

\* the folders that answered listings lead to from a set of folders
RECURSIVE Listable(_, _)
Listable(listing, found) ==
    LET more == found \cup UNION {Range(listing.folder[f].items) : f \in found}
    IN  IF more = found THEN found ELSE Listable(listing, more)

\* C34: for every remote folder listing, with folders under several parents
\* and with cycles, getAllFoldersRecursively returns, and it returns each folder
\* id at most once; the folders returned are those that the answered listings
\* lead to from the space, so that a folder whose subfolders are not available
\* contributes none and leaves the other folders as they are.
C34_EachFolderOnce ==
    FoldersListed =>
        /\ \A i, j \in 1..Len(applied.result) :
              applied.result[i] = applied.result[j] => i = j
        /\ Range(applied.result)
              = Listable(applied.arg, Range(applied.arg.space.items))

\* the listings hold a cycle (F2 and F3 list each other), F1 is listed by the
\* space and by F2, and the subfolders of F1 are not available
C34_Witness ==
    /\ FoldersListed
    /\ applied.arg.space = Answered(<<F1, F2>>)
    /\ applied.arg.folder[F1] = NotOk
    /\ applied.arg.folder[F2] = Answered(<<F3, F1>>)
    /\ applied.arg.folder[F3] = Answered(<<F2>>)
    /\ applied.result = <<F1, F2, F3>>

\* path is the output directory or lies below it
InOutputDir(path) ==
    /\ Len(path) >= Len(OutputDir)
    /\ SubSeq(path, 1, Len(OutputDir)) = OutputDir
    /\ \A i \in 1..Len(path) : path[i] # DotDot

\* C35: every directory crawlSpace has made sure exists and the directory of
\* every file it has written is the output directory or lies below it, whatever
\* the names of the space, the documents and the pages are.
C35_InsideOutputDir ==
    /\ \A d \in dirs : InOutputDir(d)
    /\ \A i \in 1..Len(writes) : InOutputDir(writes[i].dir)

\* the places of writes where a page was written
PagesWritten == {i \in 1..Len(writes) : writes[i].kind = "page"}

\* the pages the documents of the space hold
RemotePages ==
    UNION {Range(remote.documents[i].pages) : i \in 1..Len(remote.documents)}

\* the sanitized name of the page written at place i of writes
SanitizedName(i) ==
    LET page == CHOOSE p \in RemotePages : p.id = writes[i].id
    IN  sanitizeFileName(IF page.name # <<>> THEN page.name ELSE UntitledPage)

\* the files that hold a page
PageFiles == {<<writes[i].dir, writes[i].file>> : i \in PagesWritten}

\* the text of a file after the writes: that of the last write to it
FileText(dir, file) ==
    writes[CHOOSE i \in 1..Len(writes) :
              /\ writes[i].dir = dir /\ writes[i].file = file
              /\ \A j \in (i + 1)..Len(writes) :
                    writes[j].dir # dir \/ writes[j].file # file].text

\* two pages of distinct ids were written to the same directory with the same
\* sanitized name, the one at place i before the one at place j
SameSlot(i, j) ==
    /\ i < j
    /\ writes[i].id # writes[j].id
    /\ writes[i].dir = writes[j].dir
    /\ SanitizedName(i) = SanitizedName(j)

\* C36: the file of a page is named by its sanitized name in its target
\* directory and by nothing else: two distinct pages written to the same
\* directory with equal sanitized names are written to the same file, which
\* holds the text of the later one, and there are then fewer page files than
\* pages written.
C36_LaterPageReplaces ==
    /\ \A i \in PagesWritten : writes[i].file = SanitizedName(i) \o Md
    /\ \A i, j \in PagesWritten :
          SameSlot(i, j) =>
              /\ writes[i].file = writes[j].file
              /\ \E k \in PagesWritten :
                    /\ k >= j
                    /\ FileText(writes[i].dir, writes[i].file) = writes[k].text
              /\ Cardinality(PageFiles) < Cardinality(PagesWritten)

\* the pages "a b" and "a_b" of one document were both written to a_b.md, and
\* the file holds the heading of the second
C36_Witness ==
    /\ Done
    /\ Cardinality(PagesWritten) = 2
    /\ Cardinality(PageFiles) = 1
    /\ \E i, j \in PagesWritten :
        /\ SameSlot(i, j)
        /\ writes[i].text # writes[j].text
        /\ FileText(writes[j].dir, writes[j].file) = writes[j].text
====
